---------------------------- MODULE Spec2Model ----------------------------
(***************************************************************************)
(* A model of the BGP anomaly detection scripts of bgp-tag:                *)
(*   server/scripts/scenarios/flap/flap.py          (flap detector)        *)
(*   bgp-mcp/server/scripts/scenarios/flap/flap.py  (flap detector, mcp)   *)
(*   server/scripts/scenarios/loop/loop.py          (loop detector)        *)
(*   server/scripts/scenarios/hijack/moas.py        (MOAS detector)        *)
(*   server/scripts/scenarios/hijack/origin_hijack.py                      *)
(*   server/scripts/scenarios/hijack/subprefix_hijack.py                   *)
(* Each script is a process of its own; each has a specification of its    *)
(* own below (SpecWindow, SpecLoop, SpecFlap, ...) over the same           *)
(* variables.  A DataFrame is a sequence of rows (records), a list of      *)
(* event dicts a sequence of records.                                      *)
(***************************************************************************)
EXTENDS Integers, Sequences, FiniteSets, TLC

VARIABLES
    script,        \* the script this process runs
    pc,            \* the position of main() in it
    start_dt,      \* main: start of the requested window
    end_dt,        \* main: end of the requested window
    chunk_delta,   \* main: the pd.Timedelta added per chunk
    current_time,  \* main: start of the next chunk
    chunks,        \* the (current_time, chunk_end) pairs main has processed
    df,            \* the rows handed to the detector
    args,          \* the detector call's keyword arguments
    events,        \* the list the detector returned
    baseline_df,   \* origin_hijack: the frame build_baseline returned
    table,         \* the rows of the result table, in insertion order
    run,           \* how many times main() has been started
    stream,        \* BGPRealtimeStreaming: the elems self.stream yields
    consumed,      \* how many of them the for loop has taken
    is_running,    \* self.is_running
    batch_buffer,  \* self.batch_buffer
    batch,         \* _batch_processor: its local batch
    batch_thread,  \* the position of the batch thread
    current_date,  \* self.current_date
    today,         \* the date datetime.now() gives
    inserted,      \* the calls of _insert_batch: table name, batch, outcome
    total_saved,   \* main: the count it prints at the end
    all_summaries, \* bgp-mcp flap main: the summaries of all chunks
    batch_index,   \* save_to_timescale: the batch its for loop is at
    queries,       \* the (start, end) reads main has asked of the store
    writes,        \* the inserts sent to the result table, with their outcome
    futures,       \* run_analysis_scripts: the state of each script's run
    results,       \* run_analysis_scripts: the results collected so far
    failed,        \* run_analysis_scripts: its flag failed
    partitions     \* the store: the rows of update_entries_<day>, per day

\* The variables of the streaming service, which the detector scripts leave
\* alone.
serviceVars == << stream, consumed, is_running, batch_buffer, batch,
                 batch_thread, current_date, today, inserted >>

\* The variables of a whole run of main(), which the detector functions
\* leave alone.
runVars == << total_saved, all_summaries, batch_index, queries, writes >>

\* The variables of the pipeline that starts the detector scripts.
pipelineVars == << futures, results, failed >>

\* The store the detector scripts read.
storeVars == << partitions >>

otherVars == << serviceVars, runVars, pipelineVars, storeVars >>

vars == << script, pc, start_dt, end_dt, chunk_delta, current_time, chunks,
           df, args, events, baseline_df, table, run, otherVars >>

(***************************************************************************)
(* Generic helpers.                                                        *)
(***************************************************************************)
Range(s) == { s[i] : i \in 1..Len(s) }

Min2(a, b) == IF a <= b THEN a ELSE b

SetMin(S) == CHOOSE x \in S : \A y \in S : x <= y

SetMax(S) == CHOOSE x \in S : \A y \in S : x >= y

\* The distinct values of s in order of first appearance (pandas unique(),
\* and the order of the groups of groupby(sort=False)).
RECURSIVE UniqueInOrder(_)
UniqueInOrder(s) ==
    IF s = << >> THEN << >>
    ELSE << Head(s) >> \o
         UniqueInOrder(SelectSeq(Tail(s), LAMBDA x : x # Head(s)))

\* The sequences over S of length at most n.
SeqsUpTo(S, n) == UNION { [1..k -> S] : k \in 0..n }

(***************************************************************************)
(* The variables a specification does not use keep these values.           *)
(***************************************************************************)
NoWindow ==
    /\ start_dt = 0 /\ end_dt = 0 /\ chunk_delta = 0
    /\ current_time = 0 /\ chunks = << >>

NoFrame == df = << >> /\ args = << >> /\ events = << >>

NoBaseline == baseline_df = << >>

NoTable == table = << >> /\ run = 0

NoService ==
    /\ stream = << >> /\ consumed = 0 /\ is_running = FALSE
    /\ batch_buffer = << >> /\ batch = << >> /\ batch_thread = "none"
    /\ current_date = 0 /\ today = 0 /\ inserted = << >>

NoRun ==
    /\ total_saved = 0 /\ all_summaries = << >> /\ batch_index = 0
    /\ queries = << >> /\ writes = << >>

NoPipeline == futures = << >> /\ results = << >> /\ failed = FALSE

NoStore == partitions = << >>

NoOther == NoService /\ NoRun /\ NoPipeline /\ NoStore

(***************************************************************************)
(* The chunk loop of main(): flap.py 203-227, moas.py 177-203,             *)
(* origin_hijack.py 209-230, bgp-mcp flap.py 135-159.                      *)
(* Time is counted in a unit that divides every timestamp of the model.    *)
(***************************************************************************)
MaxTime == 6

MaxChunk == 3

\* A chunk end that is not cut at end_dt (the min forgotten).
ChunkEndNoMin(cur, delta, end) == cur + delta

\* chunk_end = min(current_time + pd.Timedelta(hours=...), end_dt)
ChunkEnd(cur, delta, end) == Min2(cur + delta, end)

\* main() up to the loop: the arguments are parsed, current_time = start_dt.
InitWindow ==
    /\ script = "window"
    /\ pc = "loop"
    /\ start_dt \in 0..MaxTime
    /\ end_dt \in 0..MaxTime
    /\ chunk_delta \in 1..MaxChunk
    /\ current_time = start_dt
    /\ chunks = << >>
    /\ NoFrame /\ NoBaseline /\ NoTable /\ NoOther

\* One iteration of `while current_time < end_dt`.  The load, detect and save
\* calls of the body assign neither current_time nor end_dt.
ChunkIteration ==
    /\ pc = "loop"
    /\ current_time < end_dt
    /\ LET chunk_end == ChunkEnd(current_time, chunk_delta, end_dt)
       IN  /\ chunks' = Append(chunks, [s |-> current_time, e |-> chunk_end])
           /\ current_time' = chunk_end
    /\ UNCHANGED << script, pc, start_dt, end_dt, chunk_delta,
                    df, args, events, baseline_df, table, run,
                    otherVars >>

\* The loop condition fails: main() prints its total and returns.
LoopExit ==
    /\ pc = "loop"
    /\ ~ (current_time < end_dt)
    /\ pc' = "done"
    /\ UNCHANGED << script, start_dt, end_dt, chunk_delta, current_time,
                    chunks, df, args, events, baseline_df, table, run,
                    otherVars >>

NextWindow == ChunkIteration \/ LoopExit

SpecWindow == InitWindow /\ [][NextWindow]_vars

\* C1: for start < end and every chunk size the chunks are contiguous and
\* non-overlapping and cover exactly [start, end): the first starts at start,
\* each starts where the previous one ended, each is non-empty, and once the
\* loop has ended the last one ends at end.
C1_ChunksCoverWindow ==
    /\ \A i \in 1..Len(chunks) :
          /\ chunks[i].s < chunks[i].e
          /\ start_dt <= chunks[i].s /\ chunks[i].e <= end_dt
          /\ i = 1 => chunks[i].s = start_dt
          /\ i > 1 => chunks[i].s = chunks[i-1].e
    /\ (pc = "done" /\ start_dt < end_dt) =>
          /\ Len(chunks) >= 1
          /\ chunks[Len(chunks)].e = end_dt

\* A finished run of three chunks whose last chunk is cut short by end_dt.
C1_Witness ==
    /\ pc = "done"
    /\ Len(chunks) = 3
    /\ chunks[3].e - chunks[3].s < chunk_delta
    /\ chunks[3].e = end_dt

(***************************************************************************)
(* loop.py: main() fetches the whole window, analyzes it and saves.        *)
(* A row of the frame fetch_bgp_updates returns is                         *)
(*   [timestamp, peer_as, as_path, prefix, state];                         *)
(* the frame is sorted by timestamp (loop.py 79).                          *)
(***************************************************************************)
MaxLoopRows == 2

MaxPathLen == 4

LoopASNs == {1, 2, 3}

LoopPrefixes == {"10.0.0.0/16", "10.0.1.0/24"}

LoopPaths == SeqsUpTo(LoopASNs, MaxPathLen)

\* loop.py 81-89.  `not as_path` is true of None and of the empty list alike;
\* the driver always returns an array column as a list.
has_as_loop(as_path) ==
    IF as_path = << >> THEN FALSE
    ELSE Len(as_path) # Cardinality(Range(as_path))

\* [str(asn) for asn in as_path]
StrPath(as_path) == [i \in 1..Len(as_path) |-> ToString(as_path[i])]

\* The timestamps of a frame.
Timestamps(d) == { d[i].timestamp : i \in 1..Len(d) }

\* loop.py 96-112: the summary of one group of groupby('prefix').
LoopSummary(d, prefix, now) ==
    LET group == SelectSeq(d, LAMBDA r : r.prefix = prefix)
        loop_paths == SelectSeq(group, LAMBDA r : has_as_loop(r.as_path))
    IN  [ prefix       |-> prefix,
          as_path      |-> StrPath(loop_paths[1].as_path),
          total_events |-> Len(group),
          first_update |-> SetMin(Timestamps(group)),
          last_update  |-> SetMax(Timestamps(group)),
          analyzed_at  |-> now ]

\* loop.py 91-113: one summary per prefix group that holds a looping path,
\* the groups in order of first appearance (sort=False).
analyze_loop_anomalies(d, now) ==
    LET prefixes == UniqueInOrder([i \in 1..Len(d) |-> d[i].prefix])
        hit == SelectSeq(prefixes, LAMBDA p :
                   \E i \in 1..Len(d) :
                       d[i].prefix = p /\ has_as_loop(d[i].as_path))
    IN  [k \in 1..Len(hit) |-> LoopSummary(d, hit[k], now)]

\* loop.py 140-149: the tuple inserted for a summary.
LoopRow(s) ==
    [ time         |-> s.first_update,
      prefix       |-> s.prefix,
      as_path      |-> s.as_path,
      total_events |-> s.total_events,
      first_update |-> s.first_update,
      last_update  |-> s.last_update,
      analyzed_at  |-> s.analyzed_at ]

\* loop.py 151-158: INSERT INTO loop_analysis_results ... VALUES, a plain
\* append; the statement names no conflict target.
InsertValues(tbl, rows) == tbl \o rows

\* loop.py 131-165.
save_to_timescale(tbl, summaries) ==
    IF summaries = << >> THEN tbl
    ELSE InsertValues(tbl, [k \in 1..Len(summaries) |-> LoopRow(summaries[k])])

InitLoop ==
    /\ script = "loop"
    /\ pc = "fetch"
    /\ df = << >> /\ args = << >> /\ events = << >>
    /\ table = << >>
    /\ run = 1
    /\ NoWindow /\ NoBaseline /\ NoOther

\* One more row of the stored updates of the window, in timestamp order.
LoopFetchRow ==
    /\ pc = "fetch" /\ run = 1
    /\ Len(df) < MaxLoopRows
    /\ \E prefix \in LoopPrefixes, as_path \in LoopPaths :
          df' = Append(df, [ timestamp |-> Len(df) + 1,
                             peer_as   |-> 10,
                             as_path   |-> as_path,
                             prefix    |-> prefix,
                             state     |-> "announce" ])
    /\ UNCHANGED << script, pc, start_dt, end_dt, chunk_delta, current_time,
                    chunks, args, events, baseline_df, table, run,
                    otherVars >>

\* loop.py 172-175: nothing in the window, main() returns.
LoopNoData ==
    /\ pc = "fetch"
    /\ df = << >>
    /\ pc' = "done"
    /\ UNCHANGED << script, start_dt, end_dt, chunk_delta, current_time,
                    chunks, df, args, events, baseline_df, table, run,
                    otherVars >>

\* loop.py 178: summaries = analyze_loop_anomalies(df).
LoopAnalyze ==
    /\ pc = "fetch"
    /\ df # << >>
    /\ events' = analyze_loop_anomalies(df, run)
    /\ pc' = "save"
    /\ UNCHANGED << script, start_dt, end_dt, chunk_delta, current_time,
                    chunks, df, args, baseline_df, table, run,
                    otherVars >>

\* loop.py 181-182: save_to_timescale(conn, summaries).
LoopSave ==
    /\ pc = "save"
    /\ table' = save_to_timescale(table, events)
    /\ pc' = "done"
    /\ UNCHANGED << script, start_dt, end_dt, chunk_delta, current_time,
                    chunks, df, args, events, baseline_df, run,
                    otherVars >>

\* The script is started a second time with the same --start_time and
\* --end_time over the same stored updates: the same frame is fetched.
LoopRerun ==
    /\ pc = "done"
    /\ run = 1
    /\ run' = 2
    /\ pc' = "fetch"
    /\ events' = << >>
    /\ UNCHANGED << script, start_dt, end_dt, chunk_delta, current_time,
                    chunks, df, args, baseline_df, table,
                    otherVars >>

NextLoop ==
    LoopFetchRow \/ LoopNoData \/ LoopAnalyze \/ LoopSave \/ LoopRerun

SpecLoop == InitLoop /\ [][NextLoop]_vars

\* The paths whose repeated ASNs all sit at adjacent indices (prepending).
OnlyPrepending(as_path) ==
    \A i, j \in 1..Len(as_path) :
        (i < j /\ as_path[i] = as_path[j]) =>
            \A k \in i..j : as_path[k] = as_path[i]

\* C2: a path whose only repeated ASNs are consecutive repetitions is never
\* flagged: has_as_loop is false of it and no loop event carries it.
C2_PrependingNotFlagged ==
    pc = "save" =>
        \A i \in 1..Len(df) :
            OnlyPrepending(df[i].as_path) =>
                /\ ~ has_as_loop(df[i].as_path)
                /\ \A k \in 1..Len(events) :
                      ~ ( /\ events[k].prefix = df[i].prefix
                          /\ events[k].as_path = StrPath(df[i].as_path) )

\* The first qualifying repeat of a left-to-right scan that tracks the last
\* index of each ASN: the least j with the previous occurrence i of
\* as_path[j] at distance j - i > 1 (0-based positions, as in the example).
HasQualifyingRepeat(as_path, j) ==
    /\ \E i \in 1..(j - 1) : as_path[i] = as_path[j]
    /\ LET i == SetMax({ n \in 1..(j - 1) : as_path[n] = as_path[j] })
       IN  j - i > 1

FirstRepeat(as_path) ==
    LET j == SetMin({ n \in 1..Len(as_path) : HasQualifyingRepeat(as_path, n) })
        i == SetMax({ n \in 1..(j - 1) : as_path[n] = as_path[j] })
    IN  [ repeat_as |-> as_path[j], first_idx |-> i - 1, second_idx |-> j - 1 ]

\* C3: for every analyzed record whose path holds a non-consecutive repeat
\* the detector reports the first qualifying repeat: an event of the record's
\* prefix and path that names repeat_as, first_idx and second_idx.
C3_FirstRepeatReported ==
    pc = "save" =>
        \A i \in 1..Len(df) :
            (\E j \in 1..Len(df[i].as_path) :
                 HasQualifyingRepeat(df[i].as_path, j)) =>
                \E k \in 1..Len(events) :
                    /\ events[k].prefix = df[i].prefix
                    /\ events[k].as_path = StrPath(df[i].as_path)
                    /\ { "repeat_as", "first_idx", "second_idx" }
                           \subseteq DOMAIN events[k]
                    /\ LET rep == FirstRepeat(df[i].as_path)
                       IN  /\ events[k].repeat_as = rep.repeat_as
                           /\ events[k].first_idx = rep.first_idx
                           /\ events[k].second_idx = rep.second_idx

\* C10: a second run over the same window and input adds no row that
\* duplicates an existing one under the key (time, prefix) of the loop table.
C10_RerunAddsNoDuplicate ==
    \A i, j \in 1..Len(table) :
        (i # j) => << table[i].time, table[i].prefix >>
                       # << table[j].time, table[j].prefix >>

(***************************************************************************)
(* flap.py (server) and bgp-mcp flap.py: analyze_flap_anomalies.           *)
(* A row of the frame fetch_bgp_updates returns is                         *)
(*   [timestamp, peer_as, as_path, prefix, event], event "A" or "W";       *)
(* the frame is sorted by timestamp (flap.py 67).  Timestamps are seconds. *)
(***************************************************************************)
MaxFlapRows == 3

FlapScripts == {"flap", "bgp-mcp/flap"}

FlapTimes == {0, 5, 8}

FlapKeys == { << "10.0.0.0/16", 10 >>, << "10.0.0.0/16", 20 >>,
              << "10.0.1.0/24", 10 >> }

FlapPaths == { << 100 >>, << 200, 100 >> }

\* The values tried for the keyword arguments of analyze_flap_anomalies.
FlapThresholds == {5, 60}

FlapMinTransitions == {2, 3}

\* The rank of a prefix string in Python's string order.
StrOrd(prefix) ==
    CASE prefix = "10.0.0.0/16" -> 1
      [] prefix = "10.0.1.0/24" -> 2

\* ','.join(map(str, x))
RECURSIVE PathStr(_)
PathStr(x) ==
    IF x = << >> THEN ""
    ELSE IF Len(x) = 1 THEN ToString(x[1])
         ELSE ToString(x[1]) \o "," \o PathStr(Tail(x))

\* sort_values on several columns is a stable sort: within one
\* (prefix, peer_as) the rows are ordered by timestamp, rows of equal
\* timestamp in the order of the frame.
RECURSIVE InsertByTimestamp(_, _)
InsertByTimestamp(sorted, r) ==
    IF sorted = << >> THEN << r >>
    ELSE IF Head(sorted).timestamp <= r.timestamp
         THEN << Head(sorted) >> \o InsertByTimestamp(Tail(sorted), r)
         ELSE << r >> \o sorted

RECURSIVE SortByTimestamp(_)
SortByTimestamp(s) ==
    IF s = << >> THEN << >>
    ELSE InsertByTimestamp(SortByTimestamp(SubSeq(s, 1, Len(s) - 1)),
                           s[Len(s)])

\* The (prefix, peer_as) keys of a frame.
GroupKeys(d) == { << d[i].prefix, d[i].peer_as >> : i \in 1..Len(d) }

KeyLess(a, b) ==
    \/ StrOrd(a[1]) < StrOrd(b[1])
    \/ a[1] = b[1] /\ a[2] < b[2]

\* groupby(['prefix','peer_as']) yields its groups in key order.
RECURSIVE SortedKeys(_)
SortedKeys(S) ==
    IF S = {} THEN << >>
    ELSE LET m == CHOOSE a \in S : \A b \in S \ {a} : KeyLess(a, b)
         IN  << m >> \o SortedKeys(S \ {m})

\* The rows of one (prefix, peer_as) of the sorted frame gdf.
FlapGroup(d, key) ==
    SortByTimestamp(SelectSeq(d, LAMBDA r : << r.prefix, r.peer_as >> = key))

\* flap.py 90-94, bgp-mcp flap.py 68; prev is the row shift(1) pairs with cur.
classical_flap(prev, cur, flap_threshold_seconds) ==
    /\ cur.event # prev.event
    /\ cur.timestamp - prev.timestamp <= flap_threshold_seconds

\* flap.py 97-104, bgp-mcp flap.py 70-72.
path_flap(prev, cur, flap_threshold_seconds) ==
    /\ prev.event = "A"
    /\ cur.event = "A"
    /\ cur.timestamp - prev.timestamp <= flap_threshold_seconds
    /\ PathStr(cur.as_path) # PathStr(prev.as_path)

\* flap.py 108-112: flap_type is set by classical_flap and by path_flap, and
\* consider_path_change is never read.  bgp-mcp flap.py 69-75: flip_path is
\* False unless consider_path_change.
is_flip(scr, prev, cur, flap_threshold_seconds, consider_path_change) ==
    IF scr = "flap"
    THEN \/ classical_flap(prev, cur, flap_threshold_seconds)
         \/ path_flap(prev, cur, flap_threshold_seconds)
    ELSE \/ classical_flap(prev, cur, flap_threshold_seconds)
         \/ consider_path_change /\ path_flap(prev, cur, flap_threshold_seconds)

\* flap.py 114-119: the aggregate of one group.
FlapAgg(scr, d, key, flap_threshold_seconds, consider_path_change) ==
    LET g == FlapGroup(d, key)
    IN  [ prefix       |-> key[1],
          peer_as      |-> key[2],
          total_events |-> Len(g),
          flap_count   |-> Cardinality({ i \in 2..Len(g) :
                               is_flip(scr, g[i-1], g[i],
                                       flap_threshold_seconds,
                                       consider_path_change) }),
          first_update |-> SetMin(Timestamps(g)),
          last_update  |-> SetMax(Timestamps(g)) ]

\* A filter that lets every group through.
FlapHitAll(agg, min_flap_transitions) == agg.flap_count >= 0

\* flap.py 121: hit = agg[agg['flap_count'] >= min_flap_transitions]
FlapHit(agg, min_flap_transitions) == agg.flap_count >= min_flap_transitions

\* flap.py 69-152, bgp-mcp flap.py 57-96.  The rendered summary text is left
\* out of the event.
analyze_flap_anomalies(scr, d, flap_threshold_seconds, min_flap_transitions, consider_path_change) ==
    IF d = << >> THEN << >>
    ELSE LET keys == SortedKeys(GroupKeys(d))
             agg  == [k \in 1..Len(keys) |->
                         FlapAgg(scr, d, keys[k], flap_threshold_seconds,
                                 consider_path_change)]
         IN  SelectSeq(agg, LAMBDA a : FlapHit(a, min_flap_transitions))

InitFlap ==
    /\ script \in FlapScripts
    /\ pc = "fetch"
    /\ NoFrame /\ NoWindow /\ NoBaseline /\ NoTable /\ NoOther

\* One more row of the chunk, its timestamp not before the last row's.
FlapFetchRow ==
    /\ pc = "fetch"
    /\ Len(df) < MaxFlapRows
    /\ \E key \in FlapKeys, ts \in FlapTimes, event \in {"A", "W"},
          as_path \in FlapPaths :
          /\ df # << >> => df[Len(df)].timestamp <= ts
          /\ event = "W" => as_path = << 100 >>
          /\ df' = Append(df, [ timestamp |-> ts,
                                peer_as   |-> key[2],
                                as_path   |-> as_path,
                                prefix    |-> key[1],
                                event     |-> event ])
    /\ UNCHANGED << script, pc, start_dt, end_dt, chunk_delta, current_time,
                    chunks, args, events, baseline_df, table, run,
                    otherVars >>

\* flap.py 214-215: summaries = analyze_flap_anomalies(df, ...), called for a
\* frame that is not empty.
FlapAnalyze ==
    /\ pc = "fetch"
    /\ df # << >>
    /\ \E thr \in FlapThresholds, mn \in FlapMinTransitions,
          cpc \in BOOLEAN :
          /\ args' = [ flap_threshold_seconds |-> thr,
                       min_flap_transitions   |-> mn,
                       consider_path_change   |-> cpc ]
          /\ events' = analyze_flap_anomalies(script, df, thr, mn, cpc)
    /\ pc' = "analyzed"
    /\ UNCHANGED << script, start_dt, end_dt, chunk_delta, current_time,
                    chunks, df, baseline_df, table, run,
                    otherVars >>

NextFlap == FlapFetchRow \/ FlapAnalyze

SpecFlap == InitFlap /\ [][NextFlap]_vars

\* The flap transitions of spec 4.2: (a) the kinds differ within the
\* threshold, or (b) in path-change mode, two announces within the threshold
\* with different AS_PATHs.
ClaimedFlap(prev, cur, thr, cpc) ==
    LET dt == cur.timestamp - prev.timestamp
    IN  \/ cur.event # prev.event /\ dt <= thr
        \/ /\ cpc
           /\ prev.event = "A" /\ cur.event = "A"
           /\ dt <= thr
           /\ cur.as_path # prev.as_path

ClaimedFlapCount(g, thr, cpc) ==
    Cardinality({ i \in 2..Len(g) : ClaimedFlap(g[i-1], g[i], thr, cpc) })

\* C4: exactly one event for each (prefix, peer_as) group whose number of
\* flap transitions is >= min_flap_transitions, none for any other group,
\* and the event's flap_count is that number.
C4_OneEventPerFlappingGroup ==
    pc = "analyzed" =>
        /\ \A k \in 1..Len(events) :
              << events[k].prefix, events[k].peer_as >> \in GroupKeys(df)
        /\ \A key \in GroupKeys(df) :
              LET n  == ClaimedFlapCount(FlapGroup(df, key),
                            args.flap_threshold_seconds,
                            args.consider_path_change)
                  ev == { k \in 1..Len(events) :
                            << events[k].prefix, events[k].peer_as >> = key }
              IN  /\ Cardinality(ev) =
                         IF n >= args.min_flap_transitions THEN 1 ELSE 0
                  /\ \A k \in ev : events[k].flap_count = n

\* C5: a transition between two consecutive records of a group counts as a
\* flap iff (a) the kinds differ and dt <= threshold, or (b) path-change mode
\* is enabled and both are announces with dt <= threshold and different
\* paths; with the mode disabled no announce-to-announce transition counts.
C5_FlapTransitionDefinition ==
    pc = "analyzed" =>
        \A key \in GroupKeys(df) :
            LET g == FlapGroup(df, key)
            IN  \A i \in 2..Len(g) :
                    is_flip(script, g[i-1], g[i],
                            args.flap_threshold_seconds,
                            args.consider_path_change)
                      <=> ClaimedFlap(g[i-1], g[i],
                                      args.flap_threshold_seconds,
                                      args.consider_path_change)

(***************************************************************************)
(* moas.py: detect_moas_whole_window over the announces of one chunk.      *)
(* A row of the frame load_announces returns is                            *)
(*   [timestamp, peer_as, as_path, prefix], as_path a list (None -> []).   *)
(***************************************************************************)
MaxMoasRows == 5

MIN_PEERS == 2

MIN_EVENTS == 5

\* The announces tried: (prefix, peer_as, as_path).
MoasAnnounces ==
    { << "10.0.0.0/16", 10, << >> >>,
      << "10.0.0.0/16", 10, << 7, 100 >> >>,
      << "10.0.0.0/16", 10, << 200 >> >>,
      << "10.0.0.0/16", 20, << 7, 100 >> >>,
      << "10.0.0.0/16", 20, << 200 >> >>,
      << "10.0.0.0/16", 30, << 7, 100 >> >>,
      << "10.0.0.0/16", 30, << 200 >> >>,
      << "10.0.1.0/24", 10, << 100 >> >> }

\* sorted(...) of a set of integers, as a list.
RECURSIVE SortAsc(_)
SortAsc(S) ==
    IF S = {} THEN << >>
    ELSE << SetMin(S) >> \o SortAsc(S \ {SetMin(S)})

\* moas.py 34-37: rows whose as_path is empty have no origin (None).
HasOrigin(r) == r.as_path # << >>

extract_origin(as_path) == as_path[Len(as_path)]

\* moas.py 80-81: the rows with an origin, each with its origin_as.
WithOrigin(d) ==
    LET kept == SelectSeq(d, HasOrigin)
    IN  [i \in 1..Len(kept) |->
            [ timestamp |-> kept[i].timestamp,
              peer_as   |-> kept[i].peer_as,
              as_path   |-> kept[i].as_path,
              prefix    |-> kept[i].prefix,
              origin_as |-> extract_origin(kept[i].as_path) ]]

Origins(g) == { g[i].origin_as : i \in 1..Len(g) }

Peers(g) == { g[i].peer_as : i \in 1..Len(g) }

\* A threshold test that asks for more than MIN_EVENTS rows.
MoasQualifiesStrict(g) ==
    /\ ~ (Cardinality(Origins(g)) < 2)
    /\ ~ (Cardinality(Peers(g)) < MIN_PEERS \/ Len(g) <= MIN_EVENTS)

\* moas.py 85-92: the two `continue` tests, negated.
MoasQualifies(g) ==
    /\ ~ (Cardinality(Origins(g)) < 2)
    /\ ~ (Cardinality(Peers(g)) < MIN_PEERS \/ Len(g) < MIN_EVENTS)

\* An evidence whose event count is the number of peers of the origin.
PerOriginPeersCounted(g) ==
    [ o \in Origins(g) |->
        LET gg == SelectSeq(g, LAMBDA r : r.origin_as = o)
        IN  [ peers  |-> SortAsc(Peers(gg)),
              events |-> Cardinality(Peers(gg)),
              sample_as_paths |-> << gg[1].as_path >> ] ]

\* moas.py 99-105: the evidence of each origin of the group.
PerOrigin(g) ==
    [ o \in Origins(g) |->
        LET gg == SelectSeq(g, LAMBDA r : r.origin_as = o)
        IN  [ peers  |-> SortAsc(Peers(gg)),
              events |-> Len(gg),
              sample_as_paths |-> << gg[1].as_path >> ] ]

\* moas.py 94-140: the event of a qualifying group.
MoasEvent(prefix, g, now) ==
    [ time           |-> SetMin(Timestamps(g)),
      prefix         |-> prefix,
      event_type     |-> "MOAS",
      origin_asns    |-> SortAsc(Origins(g)),
      distinct_peers |-> Cardinality(Peers(g)),
      total_events   |-> Len(g),
      first_update   |-> SetMin(Timestamps(g)),
      last_update    |-> SetMax(Timestamps(g)),
      per_origin     |-> PerOrigin(g),
      analyzed_at    |-> now ]

\* moas.py 74-141.
detect_moas_whole_window(d, now) ==
    IF d = << >> THEN << >>
    ELSE LET cur == WithOrigin(d)
             prefixes == UniqueInOrder([i \in 1..Len(cur) |-> cur[i].prefix])
             Group(p) == SelectSeq(cur, LAMBDA r : r.prefix = p)
             hit == SelectSeq(prefixes, LAMBDA p : MoasQualifies(Group(p)))
         IN  [k \in 1..Len(hit) |-> MoasEvent(hit[k], Group(hit[k]), now)]

InitMoas ==
    /\ script = "moas"
    /\ pc = "load"
    /\ NoFrame /\ NoWindow /\ NoBaseline /\ NoTable /\ NoOther

\* One more announce of the chunk, in timestamp order.
MoasLoadRow ==
    /\ pc = "load"
    /\ Len(df) < MaxMoasRows
    /\ \E a \in MoasAnnounces :
          df' = Append(df, [ timestamp |-> Len(df) + 1,
                             peer_as   |-> a[2],
                             as_path   |-> a[3],
                             prefix    |-> a[1] ])
    /\ UNCHANGED << script, pc, start_dt, end_dt, chunk_delta, current_time,
                    chunks, args, events, baseline_df, table, run,
                    otherVars >>

\* moas.py 190-191: events = detect_moas_whole_window(df), for a frame that
\* is not empty.
MoasDetect ==
    /\ pc = "load"
    /\ df # << >>
    /\ events' = detect_moas_whole_window(df, 1)
    /\ pc' = "detected"
    /\ UNCHANGED << script, start_dt, end_dt, chunk_delta, current_time,
                    chunks, df, args, baseline_df, table, run,
                    otherVars >>

NextMoas == MoasLoadRow \/ MoasDetect

SpecMoas == InitMoas /\ [][NextMoas]_vars

\* The prefixes announced in a frame, and the announces of one of them.
AnnouncedPrefixes(d) == { d[i].prefix : i \in 1..Len(d) }

AnnouncesOf(d, prefix) == SelectSeq(d, LAMBDA r : r.prefix = prefix)

LastOf(as_path) == as_path[Len(as_path)]

\* The three thresholds of the claim over a sequence of announces.
ClaimedMoas(rows) ==
    /\ Cardinality({ LastOf(rows[i].as_path) :
                       i \in { n \in 1..Len(rows) : rows[n].as_path # << >> } })
          >= 2
    /\ Cardinality({ rows[i].peer_as : i \in 1..Len(rows) }) >= MIN_PEERS
    /\ Len(rows) >= MIN_EVENTS

MoasEventsOf(prefix) ==
    { k \in 1..Len(events) :
        events[k].prefix = prefix /\ events[k].event_type = "MOAS" }

\* C6 as claimed: exactly one MOAS event for a prefix iff over the announces
\* of the prefix in the window there are >= 2 distinct origins, >= min_peers
\* distinct peers and >= min_events announces.
C6_MoasIffThresholdsAllAnnounces ==
    pc = "detected" =>
        \A prefix \in AnnouncedPrefixes(df) :
            Cardinality(MoasEventsOf(prefix)) =
                IF ClaimedMoas(AnnouncesOf(df, prefix)) THEN 1 ELSE 0

\* C6 as amended: exactly one MOAS event for a prefix iff over the announces
\* of the prefix that carry a non-empty AS_PATH there are >= 2 distinct
\* origins, >= min_peers distinct peers and >= min_events announces; the
\* event names the prefix's origins, peer count and announce count.
C6_MoasIffThresholds ==
    pc = "detected" =>
        /\ \A k \in 1..Len(events) : events[k].prefix \in AnnouncedPrefixes(df)
        /\ \A prefix \in AnnouncedPrefixes(df) :
              LET rows == SelectSeq(AnnouncesOf(df, prefix),
                                    LAMBDA r : r.as_path # << >>)
              IN  /\ Cardinality(MoasEventsOf(prefix)) =
                         IF ClaimedMoas(rows) THEN 1 ELSE 0
                  /\ \A k \in MoasEventsOf(prefix) :
                        /\ Range(events[k].origin_asns) =
                               { LastOf(rows[i].as_path) : i \in 1..Len(rows) }
                        /\ events[k].total_events = Len(rows)
                        /\ events[k].distinct_peers =
                               Cardinality({ rows[i].peer_as : i \in 1..Len(rows) })

\* A prefix at the thresholds: exactly min_events announces with an origin,
\* two peers, origins 100 and 200, and the one event for it.
C6_Witness ==
    /\ pc = "detected"
    /\ Len(events) = 1
    /\ events[1].prefix = "10.0.0.0/16"
    /\ events[1].origin_asns = << 100, 200 >>
    /\ events[1].total_events = MIN_EVENTS
    /\ events[1].distinct_peers = 2
    /\ \A i \in 1..Len(df) : df[i].prefix = "10.0.0.0/16"

(***************************************************************************)
(* origin_hijack.py: build_baseline over the lookback announces, then      *)
(* detect_origin_hijack_whole_window over the announces of one chunk.      *)
(* load_announces explodes each stored update                              *)
(*   [timestamp, peer_as, as_path, announce_prefixes]                      *)
(* into one row [timestamp, peer_as, as_path, prefix] per prefix.          *)
(***************************************************************************)
MaxOriginUpdates == 5

ORIGIN_MIN_PEERS == 2

ORIGIN_MIN_EVENTS == 5

\* NEW_ORIGIN_RATIO = 0.60, in percent.
NEW_ORIGIN_RATIO_PERCENT == 60

\* None is the empty tuple and an origin o the tuple << o >>.
None == << >>

\* The stored updates tried: (peer_as, as_path, announce_prefixes).
OriginUpdates ==
    { << 10, << 100 >>, << "10.0.0.0/16", "10.0.1.0/24" >> >>,
      << 10, << 200 >>, << "10.0.0.0/16", "10.0.1.0/24" >> >>,
      << 20, << 300, 200 >>, << "10.0.0.0/16", "10.0.1.0/24" >> >>,
      << 20, << 100 >>, << "10.0.1.0/24" >> >>,
      << 10, << >>,     << "10.0.1.0/24" >> >> }

\* origin_hijack.py 62: explode('announce_prefixes') of one update.
ExplodeUpdate(ts, u) ==
    [i \in 1..Len(u[3]) |->
        [ timestamp |-> ts, peer_as |-> u[1], as_path |-> u[2],
          prefix |-> u[3][i] ]]

\* A frame of announces, one per (prefix, origin) pair of the list.
AnnounceFrame(pairs) ==
    [i \in 1..Len(pairs) |->
        [ timestamp |-> i, peer_as |-> 10, as_path |-> << pairs[i][2] >>,
          prefix |-> pairs[i][1] ]]

\* The lookback frames tried: none; 10.0.1.0/24 mostly from 100; both
\* prefixes from 100; 10.0.1.0/24 from 200 and 100 equally often.
LookbackFrames ==
    { << >>,
      AnnounceFrame(<< << "10.0.1.0/24", 100 >>, << "10.0.1.0/24", 200 >>,
                       << "10.0.1.0/24", 100 >> >>),
      AnnounceFrame(<< << "10.0.0.0/16", 100 >>, << "10.0.1.0/24", 100 >> >>),
      AnnounceFrame(<< << "10.0.1.0/24", 200 >>, << "10.0.1.0/24", 100 >> >>) }

\* The number of rows of g with origin o.
OriginCount(g, o) == Cardinality({ i \in 1..Len(g) : g[i].origin_as = o })

\* counts.max() of value_counts().
MaxOriginCount(g) == SetMax({ OriginCount(g, o) : o \in Origins(g) })

\* The origins value_counts() may list first: those of the greatest count.
TopOrigins(g) == { o \in Origins(g) : OriginCount(g, o) = MaxOriginCount(g) }

RECURSIVE SortedPrefixes(_)
SortedPrefixes(S) ==
    IF S = {} THEN << >>
    ELSE LET m == CHOOSE a \in S : \A b \in S : StrOrd(a) <= StrOrd(b)
         IN  << m >> \o SortedPrefixes(S \ {m})

\* A baseline that takes the first origin of each prefix in (prefix,
\* origin_as) order, whatever its count (the idxmax forgotten).
build_baseline_first(df_lookback) ==
    IF df_lookback = << >> THEN << >>
    ELSE LET base == WithOrigin(df_lookback)
             prefixes == SortedPrefixes(AnnouncedPrefixes(base))
             Group(p) == SelectSeq(base, LAMBDA r : r.prefix = p)
         IN  [k \in 1..Len(prefixes) |->
                 [ prefix          |-> prefixes[k],
                   baseline_origin |-> SetMin(Origins(Group(prefixes[k]))),
                   count           |-> OriginCount(Group(prefixes[k]),
                                          SetMin(Origins(Group(prefixes[k])))) ]]

\* origin_hijack.py 74-85: per prefix the most frequent origin; cnt is in
\* (prefix, origin_as) order and idxmax takes the first greatest count.
build_baseline(df_lookback) ==
    IF df_lookback = << >> THEN << >>
    ELSE LET base == WithOrigin(df_lookback)
             prefixes == SortedPrefixes(AnnouncedPrefixes(base))
             Group(p) == SelectSeq(base, LAMBDA r : r.prefix = p)
         IN  [k \in 1..Len(prefixes) |->
                 [ prefix          |-> prefixes[k],
                   baseline_origin |-> SetMin(TopOrigins(Group(prefixes[k]))),
                   count           |-> MaxOriginCount(Group(prefixes[k])) ]]

\* origin_hijack.py 96: baseline_df.set_index('prefix')['baseline_origin']
\* .to_dict()
baseline_map(bdf) ==
    [ p \in { bdf[i].prefix : i \in 1..Len(bdf) } |->
        (CHOOSE b \in Range(bdf) : b.prefix = p).baseline_origin ]

\* origin_hijack.py 111
BaselineOrigin(bmap, prefix) ==
    IF prefix \in DOMAIN bmap THEN << bmap[prefix] >> ELSE None

\* origin_hijack.py 100-105: the two `continue` tests, negated.
OriginEnough(g) ==
    /\ ~ (Len(g) < ORIGIN_MIN_EVENTS)
    /\ ~ (Cardinality(Peers(g)) < ORIGIN_MIN_PEERS)

\* A skip of every prefix without a baseline, whatever the flag.
SkipNoBaselineAlways(require_baseline, baseline_origin) ==
    baseline_origin = None

\* origin_hijack.py 112-113: REQUIRE_BASELINE and baseline_origin is None
SkipNoBaseline(require_baseline, baseline_origin) ==
    require_baseline /\ baseline_origin = None

\* A ratio test that asks for more than NEW_ORIGIN_RATIO.
RatioReachedStrict(count, total_events) ==
    100 * count > NEW_ORIGIN_RATIO_PERCENT * total_events

\* origin_hijack.py 109, 116: counts.max() / total_events >= NEW_ORIGIN_RATIO
RatioReached(count, total_events) ==
    100 * count >= NEW_ORIGIN_RATIO_PERCENT * total_events

\* origin_hijack.py 116
OriginChanged(baseline_origin, top_origin, count, total_events) ==
    \/ baseline_origin = None
    \/ /\ << top_origin >> # baseline_origin
       /\ RatioReached(count, total_events)

\* round(top_ratio, 6), in millionths.
RoundedRatio(count, total_events) ==
    (2 * 1000000 * count + total_events) \div (2 * total_events)

\* origin_hijack.py 117-163: the event of a flagged group.
OriginEvent(prefix, g, baseline_origin, top_origin, now) ==
    [ time            |-> SetMin(Timestamps(g)),
      prefix          |-> prefix,
      event_type      |-> "ORIGIN",
      origin_asns     |-> << top_origin >>,
      distinct_peers  |-> Cardinality(Peers(g)),
      total_events    |-> Len(g),
      first_update    |-> SetMin(Timestamps(g)),
      last_update     |-> SetMax(Timestamps(g)),
      baseline_origin |-> baseline_origin,
      top_origin      |-> top_origin,
      top_ratio       |-> RoundedRatio(MaxOriginCount(g), Len(g)),
      analyzed_at     |-> now ]

\* origin_hijack.py 88-165.  idxmax[prefix] is the origin counts.idxmax()
\* returns for the group: one of TopOrigins, which of them depends on how
\* value_counts() orders equal counts.
detect_origin_hijack_whole_window(df_current, bdf, require_baseline, idxmax, now) ==
    IF df_current = << >> THEN << >>
    ELSE LET cur == WithOrigin(df_current)
             bmap == baseline_map(bdf)
             prefixes == UniqueInOrder([i \in 1..Len(cur) |-> cur[i].prefix])
             Group(p) == SelectSeq(cur, LAMBDA r : r.prefix = p)
             Flagged(p) ==
                 /\ OriginEnough(Group(p))
                 /\ ~ SkipNoBaseline(require_baseline, BaselineOrigin(bmap, p))
                 /\ OriginChanged(BaselineOrigin(bmap, p), idxmax[p],
                                  MaxOriginCount(Group(p)), Len(Group(p)))
             hit == SelectSeq(prefixes, Flagged)
         IN  [k \in 1..Len(hit) |->
                 OriginEvent(hit[k], Group(hit[k]),
                             BaselineOrigin(bmap, hit[k]), idxmax[hit[k]], now)]

\* main() up to the baseline: REQUIRE_BASELINE is True as shipped; the run
\* is also modelled with the flag set to False.
InitOrigin ==
    /\ script = "origin_hijack"
    /\ pc = "baseline"
    /\ \E require \in BOOLEAN, lookback \in LookbackFrames :
          args = [ REQUIRE_BASELINE |-> require, df_lookback |-> lookback ]
    /\ df = << >> /\ events = << >>
    /\ NoWindow /\ NoBaseline /\ NoTable /\ NoOther

\* origin_hijack.py 205-207: baseline_df = build_baseline(df_lookback).
OriginBuildBaseline ==
    /\ pc = "baseline"
    /\ baseline_df' = build_baseline(args.df_lookback)
    /\ pc' = "load"
    /\ UNCHANGED << script, start_dt, end_dt, chunk_delta, current_time,
                    chunks, df, args, events, table, run,
                    otherVars >>

\* The rows of one more stored update of the chunk, in timestamp order.
OriginLoadUpdate ==
    /\ pc = "load"
    /\ IF df = << >> THEN TRUE
       ELSE df[Len(df)].timestamp < MaxOriginUpdates
    /\ \E u \in OriginUpdates :
          LET ts == IF df = << >> THEN 1 ELSE df[Len(df)].timestamp + 1
          IN  df' = df \o ExplodeUpdate(ts, u)
    /\ UNCHANGED << script, pc, start_dt, end_dt, chunk_delta, current_time,
                    chunks, args, events, baseline_df, table, run,
                    otherVars >>

\* origin_hijack.py 217-218: events = detect_origin_hijack_whole_window(
\* df_current, baseline_df), for a frame that is not empty.
OriginDetect ==
    /\ pc = "load"
    /\ df # << >>
    /\ LET cur == WithOrigin(df)
           Group(p) == SelectSeq(cur, LAMBDA r : r.prefix = p)
       IN  \E idxmax \in [AnnouncedPrefixes(cur) -> Origins(cur)] :
              /\ \A p \in AnnouncedPrefixes(cur) :
                    idxmax[p] \in TopOrigins(Group(p))
              /\ events' = detect_origin_hijack_whole_window(
                               df, baseline_df, args.REQUIRE_BASELINE,
                               idxmax, 1)
    /\ pc' = "detected"
    /\ UNCHANGED << script, start_dt, end_dt, chunk_delta, current_time,
                    chunks, df, args, baseline_df, table, run,
                    otherVars >>

NextOrigin == OriginBuildBaseline \/ OriginLoadUpdate \/ OriginDetect

SpecOrigin == InitOrigin /\ [][NextOrigin]_vars

\* The events reported for a prefix.
OriginEventsOf(prefix) == SelectSeq(events, LAMBDA e : e.prefix = prefix)

\* The baseline origins recorded for a prefix (at most one).
BaselineOf(prefix) ==
    { baseline_df[i].baseline_origin :
        i \in { j \in 1..Len(baseline_df) : baseline_df[j].prefix = prefix } }

\* The announces of a prefix in the chunk that carry an origin.
OriginAnnounces(prefix) == SelectSeq(AnnouncesOf(df, prefix), HasOrigin)

\* count(o) over a sequence of announces.
AnnouncesFrom(rows, o) ==
    Cardinality({ i \in 1..Len(rows) : LastOf(rows[i].as_path) = o })

\* The origins no other origin of the rows outnumbers.
DominantOrigins(rows) ==
    { o \in { LastOf(rows[i].as_path) : i \in 1..Len(rows) } :
        \A i \in 1..Len(rows) :
            AnnouncesFrom(rows, LastOf(rows[i].as_path))
                <= AnnouncesFrom(rows, o) }

\* total_events >= min_events and distinct_peers >= min_peers.
MeetsOriginThresholds(rows) ==
    /\ Len(rows) >= ORIGIN_MIN_EVENTS
    /\ Cardinality({ rows[i].peer_as : i \in 1..Len(rows) })
           >= ORIGIN_MIN_PEERS

\* The dominant origins that differ from the baseline b and hold at least
\* NEW_ORIGIN_RATIO of the announces.
NewOrigins(rows, b) ==
    { o \in DominantOrigins(rows) :
        /\ o # b
        /\ 100 * AnnouncesFrom(rows, o)
               >= NEW_ORIGIN_RATIO_PERCENT * Len(rows) }

C8_MissingBaselineSkippedOrFlagged ==
    (script = "origin_hijack" /\ pc = "detected") =>
        /\ \A p \in AnnouncedPrefixes(df) :
              BaselineOf(p) = {} =>
                 LET rows == OriginAnnounces(p)
                     found == OriginEventsOf(p)
                 IN  IF args.REQUIRE_BASELINE
                     THEN found = << >>
                     ELSE MeetsOriginThresholds(rows) =>
                             /\ Len(found) = 1
                             /\ found[1].baseline_origin = None
                             /\ found[1].top_origin \in DominantOrigins(rows)
        /\ (\E p \in AnnouncedPrefixes(df) : BaselineOf(p) = {}) =>
              \A q \in AnnouncedPrefixes(df) : \A b \in BaselineOf(q) :
                  (/\ MeetsOriginThresholds(OriginAnnounces(q))
                   /\ NewOrigins(OriginAnnounces(q), b) # {})
                      => Len(OriginEventsOf(q)) = 1

\* REQUIRE_BASELINE is set, a prefix that meets the thresholds has no
\* baseline and is skipped, and a later prefix of the chunk is reported.
C8_Witness ==
    /\ script = "origin_hijack" /\ pc = "detected"
    /\ args.REQUIRE_BASELINE
    /\ \E p \in AnnouncedPrefixes(df) :
          /\ BaselineOf(p) = {}
          /\ MeetsOriginThresholds(OriginAnnounces(p))
          /\ OriginEventsOf(p) = << >>
          /\ \E k \in 1..Len(events) :
                /\ events[k].prefix # p
                /\ \E i \in 1..Len(df) :
                      /\ df[i].prefix = p
                      /\ \A j \in 1..Len(df) :
                            df[j].prefix = events[k].prefix => i < j

(***************************************************************************)
(* subprefix_hijack.py: detect_subprefix_hijack over the announces of the  *)
(* window.  Timestamps are minutes.  A network is a record                 *)
(*   [version, network_address, prefixlen]                                 *)
(* whose address is the tuple of its octets (IPv4) or hextets (IPv6).      *)
(***************************************************************************)
MaxSubprefixRows == 3

BUCKET_MIN == 5

SubprefixTimes == { 0, 4, 5 }

\* The prefix strings ipaddress accepts, with the version, the address and
\* the prefix length it reads in each.  No two strings of different
\* versions have the same prefix length, so the sort keys of line 88 never
\* compare addresses of different versions.
ReadPrefix(text) ==
    CASE text = "10.0.0.0/16" ->
            [ version |-> 4, address |-> << 10, 0, 0, 0 >>, prefixlen |-> 16 ]
      [] text = "10.0.1.0/24" ->
            [ version |-> 4, address |-> << 10, 0, 1, 0 >>, prefixlen |-> 24 ]
      [] text = "10.0.1.5/24" ->
            [ version |-> 4, address |-> << 10, 0, 1, 5 >>, prefixlen |-> 24 ]
      [] text = "10.1.0.0/24" ->
            [ version |-> 4, address |-> << 10, 1, 0, 0 >>, prefixlen |-> 24 ]
      [] text = "2001:db8::/32" ->
            [ version |-> 6, address |-> << 8193, 3512, 0, 0, 0, 0, 0, 0 >>,
              prefixlen |-> 32 ]

ValidPrefixTexts ==
    { "10.0.0.0/16", "10.0.1.0/24", "10.0.1.5/24", "10.1.0.0/24",
      "2001:db8::/32" }

\* The announces tried: (prefix, peer_as, as_path); "10.0.1/24" is a string
\* ipaddress rejects with a ValueError.
SubprefixAnnounces ==
    { << "10.0.0.0/16", 10, << 100 >> >>,
      << "10.0.0.0/16", 20, << 200 >> >>,
      << "10.0.1.0/24", 10, << 7, 200 >> >>,
      << "10.0.1.5/24", 20, << 100 >> >>,
      << "10.1.0.0/24", 10, << 200 >> >>,
      << "2001:db8::/32", 20, << 100 >> >>,
      << "10.0.1/24", 10, << 200 >> >>,
      << "10.0.1.0/24", 10, << >> >> }

RECURSIVE Pow2(_)
Pow2(n) == IF n = 0 THEN 1 ELSE 2 * Pow2(n - 1)

\* The width of one group of an address: an octet or a hextet.
GroupBits(version) == IF version = 4 THEN 8 ELSE 16

\* The address with all but its first prefixlen bits cleared.
MaskAddress(version, address, prefixlen) ==
    [ k \in 1..Len(address) |->
        LET w    == GroupBits(version)
            left == prefixlen - (k - 1) * w
            keep == IF left < 0 THEN 0 ELSE IF left > w THEN w ELSE left
        IN  address[k] - (address[k] % Pow2(w - keep)) ]

\* subprefix_hijack.py 82: ipaddress.ip_network(row.prefix, strict=False)
\* of a string it accepts: the host bits are cleared.
ip_network(text) ==
    LET n == ReadPrefix(text)
    IN  [ version         |-> n.version,
          network_address |-> MaskAddress(n.version, n.address, n.prefixlen),
          prefixlen       |-> n.prefixlen ]

\* str(network): the string of the network whose host bits are clear.
NetworkStr(net) ==
    CHOOSE text \in ValidPrefixTexts :
        /\ ip_network(text) = net
        /\ ReadPrefix(text).address = net.network_address

\* subprefix_hijack.py 72: timestamp.dt.floor('5min')
BucketOf(timestamp) == timestamp - (timestamp % BUCKET_MIN)

\* subprefix_hijack.py 71-74: the rows with an origin, each with its bucket.
WithBucket(d) ==
    LET kept == SelectSeq(d, HasOrigin)
    IN  [i \in 1..Len(kept) |->
            [ timestamp |-> kept[i].timestamp,
              peer_as   |-> kept[i].peer_as,
              prefix    |-> kept[i].prefix,
              bucket    |-> BucketOf(kept[i].timestamp),
              origin_as |-> extract_origin(kept[i].as_path) ]]

\* subprefix_hijack.py 79-85: the keys of the dict prefixes, in the order
\* they are inserted; rows whose prefix raises are skipped.
PrefixKeys(g) ==
    LET parsed == SelectSeq(g, LAMBDA r : r.prefix \in ValidPrefixTexts)
    IN  UniqueInOrder([i \in 1..Len(parsed) |-> ip_network(parsed[i].prefix)])

\* subprefix_hijack.py 85: prefixes[pfx], the origins added for the key.
PrefixOrigins(g, pfx) ==
    { g[i].origin_as :
        i \in { j \in 1..Len(g) :
                   /\ g[j].prefix \in ValidPrefixTexts
                   /\ ip_network(g[j].prefix) = pfx } }

\* Addresses of one version compare group by group.
AddressLess(a, b) ==
    \E k \in 1..Len(a) :
        /\ a[k] < b[k]
        /\ \A j \in 1..(k - 1) : a[j] = b[j]

\* subprefix_hijack.py 88: the key (x.prefixlen, x.network_address).
SubKeyLess(a, b) ==
    \/ a.prefixlen < b.prefixlen
    \/ /\ a.prefixlen = b.prefixlen
       /\ AddressLess(a.network_address, b.network_address)

\* subprefix_hijack.py 88: sorted(prefixes, key=(prefixlen, address)).
RECURSIVE SortedSubs(_)
SortedSubs(S) ==
    IF S = {} THEN << >>
    ELSE LET m == CHOOSE a \in S : \A b \in S \ {a} : SubKeyLess(a, b)
         IN  << m >> \o SortedSubs(S \ {m})

\* subprefix_hijack.py 89: sorted(prefixes, key=prefixlen), a stable sort
\* of the keys in insertion order.
RECURSIVE SortedSups(_)
SortedSups(keys) ==
    IF keys = << >> THEN << >>
    ELSE LET shortest == SetMin({ keys[i].prefixlen : i \in 1..Len(keys) })
             first == CHOOSE i \in 1..Len(keys) :
                         /\ keys[i].prefixlen = shortest
                         /\ \A j \in 1..(i - 1) : keys[j].prefixlen # shortest
         IN  << keys[first] >> \o
             SortedSups(SubSeq(keys, 1, first - 1)
                            \o SubSeq(keys, first + 1, Len(keys)))

\* ipaddress: supernet_of raises a TypeError for networks of different
\* versions,
SupernetOfRaises(sup, pfx) == sup.version # pfx.version

\* and otherwise tells whether every address of pfx is one of sup.
supernet_of(sup, pfx) ==
    /\ sup.prefixlen <= pfx.prefixlen
    /\ MaskAddress(pfx.version, pfx.network_address, sup.prefixlen)
           = sup.network_address

\* subprefix_hijack.py 90: the pairs for which supernet_of is called.
BucketRaises(g) ==
    \E pfx \in Range(PrefixKeys(g)), sup \in Range(PrefixKeys(g)) :
        /\ sup.prefixlen < pfx.prefixlen
        /\ SupernetOfRaises(sup, pfx)

\* subprefix_hijack.py 109-130
SubprefixEvent(bucket, g, sup, pfx, now) ==
    [ time            |-> bucket,
      prefix          |-> NetworkStr(pfx),
      event_type      |-> "SUBPREFIX",
      origin_asns     |-> SortAsc(PrefixOrigins(g, pfx)),
      distinct_peers  |-> Cardinality(Peers(g)),
      total_events    |-> Len(g),
      first_update    |-> SetMin(Timestamps(g)),
      last_update     |-> SetMax(Timestamps(g)),
      baseline_origin |-> None,
      top_origin      |-> None,
      top_ratio       |-> None,
      parent_prefix   |-> NetworkStr(sup),
      more_specific   |-> NetworkStr(pfx),
      analyzed_at     |-> now ]

RECURSIVE Flatten(_)
Flatten(ss) == IF ss = << >> THEN << >> ELSE Head(ss) \o Flatten(Tail(ss))

\* subprefix_hijack.py 88-130: the events of one bucket that does not
\* raise.
BucketEvents(bucket, g, now) ==
    LET keys == PrefixKeys(g)
        subs == SortedSubs(Range(keys))
        sups == SortedSups(keys)
        Flagged(sup, pfx) ==
            /\ sup.prefixlen < pfx.prefixlen
            /\ supernet_of(sup, pfx)
            /\ ~ (PrefixOrigins(g, pfx) \subseteq PrefixOrigins(g, sup))
        EventsOf(pfx) ==
            LET hit == SelectSeq(sups, LAMBDA sup : Flagged(sup, pfx))
            IN  [k \in 1..Len(hit) |->
                    SubprefixEvent(bucket, g, hit[k], pfx, now)]
    IN  Flatten([k \in 1..Len(subs) |-> EventsOf(subs[k])])

\* The rows of one bucket of groupby('bucket', sort=False).
BucketGroup(dfb, bucket) == SelectSeq(dfb, LAMBDA r : r.bucket = bucket)

\* subprefix_hijack.py 78: the buckets in order of first appearance.
Buckets(dfb) == UniqueInOrder([i \in 1..Len(dfb) |-> dfb[i].bucket])

\* detect_subprefix_hijack raises when one of its buckets does.
DetectRaises(d) ==
    \E i \in 1..Len(WithBucket(d)) :
        BucketRaises(BucketGroup(WithBucket(d), WithBucket(d)[i].bucket))

\* subprefix_hijack.py 67-131, for a frame on which it does not raise.
detect_subprefix_hijack(d, now) ==
    IF d = << >> THEN << >>
    ELSE LET dfb == WithBucket(d)
             buckets == Buckets(dfb)
         IN  Flatten([k \in 1..Len(buckets) |->
                        BucketEvents(buckets[k],
                                     BucketGroup(dfb, buckets[k]), now)])

InitSubprefix ==
    /\ script = "subprefix_hijack"
    /\ pc = "load"
    /\ df = << >> /\ events = << >> /\ args = << >>
    /\ NoWindow /\ NoBaseline /\ NoTable /\ NoOther

\* One more announce of the window; load_announces returns the rows in
\* timestamp order.
SubprefixLoadRow ==
    /\ pc = "load"
    /\ Len(df) < MaxSubprefixRows
    /\ \E a \in SubprefixAnnounces, ts \in SubprefixTimes :
          /\ IF df = << >> THEN TRUE ELSE df[Len(df)].timestamp <= ts
          /\ df' = Append(df, [ timestamp |-> ts,
                                peer_as   |-> a[2],
                                as_path   |-> a[3],
                                prefix    |-> a[1] ])
    /\ UNCHANGED << script, pc, start_dt, end_dt, chunk_delta, current_time,
                    chunks, args, events, baseline_df, table, run,
                    otherVars >>

\* subprefix_hijack.py 173: events = detect_subprefix_hijack(df); a
\* TypeError of supernet_of is caught nowhere and ends main().
SubprefixDetect ==
    /\ pc = "load"
    /\ df # << >>
    /\ IF DetectRaises(df)
       THEN pc' = "TypeError" /\ events' = << >>
       ELSE pc' = "detected" /\ events' = detect_subprefix_hijack(df, 1)
    /\ UNCHANGED << script, start_dt, end_dt, chunk_delta, current_time,
                    chunks, df, args, baseline_df, table, run,
                    otherVars >>

NextSubprefix == SubprefixLoadRow \/ SubprefixDetect

SpecSubprefix == InitSubprefix /\ [][NextSubprefix]_vars

\* The networks of the prefix strings.
Networks == { ip_network(text) : text \in ValidPrefixTexts }

\* The origins a network is announced with in a bucket.
AnnouncedOrigins(net, bucket) ==
    { LastOf(df[i].as_path) :
        i \in { j \in 1..Len(df) :
                   /\ df[j].as_path # << >>
                   /\ df[j].timestamp - (df[j].timestamp % BUCKET_MIN) = bucket
                   /\ df[j].prefix \in ValidPrefixTexts
                   /\ ip_network(df[j].prefix) = net } }

\* S strictly contains P: same family, shorter, and P's first bits are S's.
StrictlyContains(S, P) ==
    /\ S.version = P.version
    /\ S.prefixlen < P.prefixlen
    /\ MaskAddress(P.version, P.network_address, S.prefixlen)
           = S.network_address

\* The pair (S, P) the claim expects to be reported in a bucket.
ClaimedSubprefix(S, P, bucket) ==
    /\ AnnouncedOrigins(S, bucket) # {}
    /\ AnnouncedOrigins(P, bucket) # {}
    /\ StrictlyContains(S, P)
    /\ ~ (AnnouncedOrigins(P, bucket) \subseteq AnnouncedOrigins(S, bucket))

SubprefixReported(S, P, bucket) ==
    \E k \in 1..Len(events) :
        /\ events[k].event_type = "SUBPREFIX"
        /\ events[k].time = bucket
        /\ events[k].parent_prefix = NetworkStr(S)
        /\ events[k].more_specific = NetworkStr(P)

\* C9: once detect_subprefix_hijack has run, a SUBPREFIX event naming
\* parent_prefix = S and more_specific = P in a bucket exists if and only
\* if S and P were both announced with an origin in that bucket, S strictly
\* contains P, and the origins of P in the bucket are not a subset of the
\* origins of S in the bucket.
C9_SubprefixEventIffUncoveredOrigin ==
    (script = "subprefix_hijack" /\ pc # "load") =>
        \A S \in Networks, P \in Networks :
            \A bucket \in { BucketOf(ts) : ts \in SubprefixTimes } :
                SubprefixReported(S, P, bucket)
                    <=> ClaimedSubprefix(S, P, bucket)

(***************************************************************************)
(* bgp_realtime_streaming.py: BGPRealtimeStreaming.  Two threads share the *)
(* object: the main thread runs start_streaming() and _stream_loop(), the  *)
(* daemon batch thread runs _batch_processor().  pc is the position of the *)
(* main thread, batch_thread that of the batch thread; table is the        *)
(* update_entries table.  A record is written durably once _insert_batch   *)
(* has committed it.  The interpreter ends a daemon thread wherever it is  *)
(* when the main thread has left main().  Dates are counted in days; an    *)
(* update is stamped with the date it is read at, and a buffered entry is  *)
(* [id, date], date the day of its timestamp.                              *)
(***************************************************************************)
MaxStream == 3

\* The days the clock may advance while the service runs.
MaxDate == 1

\* self.batch_size (1000 in the source), scaled down.
batch_size == 2

\* The elems of the stream: each an update, which _stream_loop buffers, or
\* an elem of another type, which it skips.
StreamElems(n) ==
    { s \in [1..n -> [ id : 1..n, type : {"update", "other"} ]] :
        \A i \in 1..n : s[i].id = i }

\* bgp_realtime_streaming.py 143-173: _insert_batch commits the rows, or an
\* exception is logged and the rows are not stored.
InsertBatch(tbl, rows, ok) == IF ok THEN tbl \o rows ELSE tbl

InitStream ==
    /\ script = "bgp_realtime_streaming"
    /\ pc = "start_streaming"
    /\ \E n \in 0..MaxStream : stream \in StreamElems(n)
    /\ consumed = 0
    /\ is_running = FALSE
    /\ batch_buffer = << >> /\ batch = << >>
    /\ batch_thread = "none"
    /\ today = 0
    /\ current_date = today
    /\ inserted = << >>
    /\ table = << >> /\ run = 0
    /\ NoWindow /\ NoFrame /\ NoBaseline /\ NoRun /\ NoPipeline /\ NoStore

streamMain == << script, start_dt, end_dt, chunk_delta, current_time, chunks,
                 df, args, events, baseline_df, run, stream, runVars,
                 pipelineVars, storeVars >>

\* bgp_realtime_streaming.py 37-50: start_streaming up to _stream_loop.
StartStreaming ==
    /\ pc = "start_streaming"
    /\ is_running' = TRUE
    /\ batch_thread' = "while"
    /\ pc' = "stream_loop"
    /\ UNCHANGED << streamMain, table, consumed, batch_buffer, batch,
                    current_date, today, inserted >>

\* bgp_realtime_streaming.py 64-76, 84-119: one iteration of the for loop;
\* current_date follows the clock, and an update is appended to the buffer
\* under the lock.
StreamElem ==
    /\ pc = "stream_loop"
    /\ consumed < Len(stream)
    /\ is_running
    /\ consumed' = consumed + 1
    /\ current_date' = today
    /\ batch_buffer' = IF stream[consumed + 1].type = "update"
                       THEN Append(batch_buffer,
                                   [ id   |-> stream[consumed + 1].id,
                                     date |-> today ])
                       ELSE batch_buffer
    /\ UNCHANGED << streamMain, pc, table, is_running, batch, batch_thread,
                    today, inserted >>

\* bgp_realtime_streaming.py 64, 78-82: the stream ends, or raises; either
\* way the finally clause runs next and start_streaming() then returns.
StreamEnds ==
    /\ pc = "stream_loop"
    /\ pc' = "flush"
    /\ UNCHANGED << streamMain, table, consumed, is_running, batch_buffer,
                    batch, batch_thread, current_date, today, inserted >>

\* bgp_realtime_streaming.py 80-82, 219-221: a KeyboardInterrupt in the
\* loop is no Exception: the finally clause runs and main() then calls
\* stop_streaming().
StreamInterrupted ==
    /\ pc = "stream_loop"
    /\ pc' = "flush_interrupted"
    /\ UNCHANGED << streamMain, table, consumed, is_running, batch_buffer,
                    batch, batch_thread, current_date, today, inserted >>

\* bgp_realtime_streaming.py 202-208: _flush_buffer, under the lock.
FlushBuffer ==
    /\ pc \in {"flush", "flush_interrupted"}
    /\ \E ok \in BOOLEAN :
          IF batch_buffer # << >>
          THEN /\ table' = InsertBatch(table, batch_buffer, ok)
               /\ inserted' = Append(inserted,
                                  [ table_name |-> current_date,
                                    batch      |-> batch_buffer,
                                    ok         |-> ok ])
          ELSE /\ table' = table
               /\ inserted' = inserted
    /\ batch_buffer' = << >>
    /\ pc' = IF pc = "flush" THEN "return" ELSE "stop_streaming"
    /\ UNCHANGED << streamMain, consumed, is_running, batch, batch_thread,
                    current_date, today >>

\* bgp_realtime_streaming.py 52-54: stop_streaming clears the flag.
StopStreaming ==
    /\ pc = "stop_streaming"
    /\ is_running' = FALSE
    /\ pc' = "join"
    /\ UNCHANGED << streamMain, table, consumed, batch_buffer, batch,
                    batch_thread, current_date, today, inserted >>

\* bgp_realtime_streaming.py 55-57: join(timeout=5) returns when the batch
\* thread has ended or when the five seconds have passed.
JoinReturns ==
    /\ pc = "join"
    /\ pc' = "return"
    /\ UNCHANGED << streamMain, table, consumed, is_running, batch_buffer,
                    batch, batch_thread, current_date, today, inserted >>

\* bgp_realtime_streaming.py 211-226: main() returns and the process exits;
\* a batch thread that has not ended is stopped where it is.
ProcessExits ==
    /\ pc = "return"
    /\ pc' = "exited"
    /\ batch_thread' = IF batch_thread = "ended" THEN "ended" ELSE "killed"
    /\ UNCHANGED << streamMain, table, consumed, is_running, batch_buffer,
                    batch, current_date, today, inserted >>

\* bgp_realtime_streaming.py 126: while self.is_running
BatchWhile ==
    /\ batch_thread = "while"
    /\ batch_thread' = IF is_running THEN "sleep" ELSE "ended"
    /\ UNCHANGED << streamMain, pc, table, consumed, is_running, batch_buffer,
                    batch, current_date, today, inserted >>

\* bgp_realtime_streaming.py 128-137: after the sleep, under the lock, the
\* thread takes the whole buffer if it holds batch_size records.
BatchTake ==
    /\ batch_thread = "sleep"
    /\ IF Len(batch_buffer) >= batch_size
       THEN /\ batch' = batch_buffer
            /\ batch_buffer' = << >>
            /\ batch_thread' = "insert"
       ELSE /\ batch' = << >>
            /\ batch_buffer' = batch_buffer
            /\ batch_thread' = "while"
    /\ UNCHANGED << streamMain, pc, table, consumed, is_running,
                    current_date, today, inserted >>

\* bgp_realtime_streaming.py 137-138: self._insert_batch(batch); the table
\* is named after self.current_date as it is at the call (line 146).
BatchInsert ==
    /\ batch_thread = "insert"
    /\ \E ok \in BOOLEAN :
          /\ table' = InsertBatch(table, batch, ok)
          /\ inserted' = Append(inserted, [ table_name |-> current_date,
                                            batch      |-> batch,
                                            ok         |-> ok ])
    /\ batch_thread' = "while"
    /\ UNCHANGED << streamMain, pc, consumed, is_running, batch_buffer,
                    batch, current_date, today >>

\* Midnight passes while the process runs.
DateChanges ==
    /\ pc # "exited"
    /\ today < MaxDate
    /\ today' = today + 1
    /\ UNCHANGED << streamMain, pc, table, consumed, is_running, batch_buffer,
                    batch, batch_thread, current_date, inserted >>

NextStream ==
    \/ StartStreaming \/ StreamElem \/ StreamEnds \/ StreamInterrupted
    \/ FlushBuffer \/ StopStreaming \/ JoinReturns \/ ProcessExits
    \/ BatchWhile \/ BatchTake \/ BatchInsert \/ DateChanges

SpecStream == InitStream /\ [][NextStream]_vars

\* The records _process_bgp_update has appended to the buffer.
AcceptedRecords ==
    { stream[i].id : i \in { j \in 1..consumed : stream[j].type = "update" } }

\* C11: when the process has exited, every record that was accepted into
\* the buffer, whether it was still there at termination or had been taken
\* out by the batch thread, is in the table.
C11_NoAcceptedRecordDropped ==
    (script = "bgp_realtime_streaming" /\ pc = "exited") =>
        AcceptedRecords \subseteq { r.id : r \in Range(table) }

(***************************************************************************)
(* main() of the chunked detectors, one whole run: flap.py (server),       *)
(* flap.py (bgp-mcp), moas.py and origin_hijack.py.  Times are counted in  *)
(* half hours.  The store and the result table are the environment: a load *)
(* returns rows or none, a detector (modelled above) returns any short     *)
(* list of events for rows that are not empty, and an insert commits or    *)
(* raises.  queries and writes list what main() asked of the two.          *)
(***************************************************************************)
MaxRunSteps == 4

MaxChunkEvents == 2

\* save_to_timescale's batch_size (100 in the source), scaled down.
SaveBatchSize == 1

HalfHoursPerDay == 48

LOOKBACK_DAYS == 7

RunScripts == { "flap", "bgp-mcp/flap", "moas", "origin_hijack" }

\* pd.Timedelta(hours=1), and hours=6 in the bgp-mcp flap.py.
ChunkDelta(scr) == IF scr = "bgp-mcp/flap" THEN 12 ELSE 2

\* The instants a window may start or end at: half chunks after an instant
\* later than the lookback.
RunTimes(scr) ==
    { (LOOKBACK_DAYS + 1) * HalfHoursPerDay + k * (ChunkDelta(scr) \div 2) :
        k \in 0..MaxRunSteps }

\* The lists a detector may return for the chunk that starts at cur.
ChunkEvents(cur) ==
    { [k \in 1..n |-> [ chunk |-> cur, n |-> k ]] : n \in 0..MaxChunkEvents }

\* The baselines build_baseline may return.
RunBaselines ==
    { << >>,
      << [ prefix |-> "10.0.1.0/24", baseline_origin |-> 100, count |-> 1 ] >> }

\* to_sql(if_exists='append') / execute_values + commit: the rows are in
\* the table if the insert did not raise.
WriteRows(tbl, rows, ok) == IF ok THEN tbl \o rows ELSE tbl

InitRun ==
    /\ script \in RunScripts
    /\ pc = IF script = "origin_hijack" THEN "baseline" ELSE "while"
    /\ start_dt \in RunTimes(script)
    /\ end_dt \in RunTimes(script)
    /\ chunk_delta = ChunkDelta(script)
    /\ current_time = start_dt
    /\ chunks = << >>
    /\ total_saved = 0 /\ all_summaries = << >> /\ batch_index = 0
    /\ queries = << >> /\ writes = << >>
    /\ NoFrame /\ NoBaseline /\ NoTable /\ NoService /\ NoPipeline
    /\ NoStore

runFixed == << script, start_dt, end_dt, chunk_delta, args, run, serviceVars,
              pipelineVars, storeVars >>

\* origin_hijack.py 205-207: the lookback is loaded and the baseline built.
RunBaseline ==
    /\ pc = "baseline"
    /\ queries' = Append(queries,
                    [ start |-> start_dt - LOOKBACK_DAYS * HalfHoursPerDay,
                      end   |-> start_dt ])
    /\ baseline_df' \in RunBaselines
    /\ pc' = "while"
    /\ UNCHANGED << runFixed, current_time, chunks, df, events, table,
                    total_saved, all_summaries, batch_index, writes >>

\* while current_time < end_dt
RunWhile ==
    /\ pc = "while"
    /\ pc' = IF current_time < end_dt THEN "load" ELSE "finish"
    /\ UNCHANGED << runFixed, current_time, chunks, df, events, baseline_df,
                    table, runVars >>

\* df = fetch_bgp_updates(current_time, chunk_end) / load_announces(...)
RunLoad ==
    /\ pc = "load"
    /\ queries' = Append(queries,
                    [ start |-> current_time,
                      end   |-> ChunkEnd(current_time, chunk_delta, end_dt) ])
    /\ chunks' = Append(chunks,
                    << current_time,
                       ChunkEnd(current_time, chunk_delta, end_dt) >>)
    /\ \E empty \in BOOLEAN :
          /\ df' = IF empty THEN << >> ELSE << [ chunk |-> current_time ] >>
          /\ pc' = IF empty THEN "advance" ELSE "detect"
    /\ UNCHANGED << runFixed, current_time, events, baseline_df, table,
                    total_saved, all_summaries, batch_index, writes >>

\* The detector call on a frame that is not empty.  The server scripts go
\* on to save a list that is not empty; the bgp-mcp flap.py extends
\* all_summaries.
RunDetect ==
    /\ pc = "detect"
    /\ \E found \in ChunkEvents(current_time) :
          /\ events' = found
          /\ all_summaries' = IF script = "bgp-mcp/flap"
                              THEN all_summaries \o found
                              ELSE all_summaries
          /\ pc' = IF script # "bgp-mcp/flap" /\ found # << >>
                   THEN "save" ELSE "advance"
    /\ batch_index' = 0
    /\ UNCHANGED << runFixed, current_time, chunks, df, baseline_df, table,
                    total_saved, queries, writes >>

\* flap.py 192-201 (server): one pass of the for loop over the batches; a
\* failed to_sql is printed and the loop continues.  After the last batch
\* main() adds len(summaries) to total_saved (flap.py 216-217).
RunSaveBatch ==
    /\ pc = "save" /\ script = "flap"
    /\ LET last  == Min2(batch_index + SaveBatchSize, Len(events))
           rows  == SubSeq(events, batch_index + 1, last)
       IN  /\ \E ok \in BOOLEAN :
                 /\ table' = WriteRows(table, rows, ok)
                 /\ writes' = Append(writes, [ rows |-> rows, ok |-> ok ])
           /\ batch_index' = last
           /\ IF last < Len(events)
              THEN pc' = "save" /\ total_saved' = total_saved
              ELSE pc' = "advance" /\ total_saved' = total_saved + Len(events)
    /\ UNCHANGED << runFixed, current_time, chunks, df, events, baseline_df,
                    all_summaries, queries >>

\* moas.py 144-174, origin_hijack.py 168-196: save_events has no except;
\* main() adds len(events) to total_saved after it (moas.py 193-194).
RunSaveEvents ==
    /\ pc = "save" /\ script \in { "moas", "origin_hijack" }
    /\ \E ok \in BOOLEAN :
          /\ table' = WriteRows(table, events, ok)
          /\ writes' = Append(writes, [ rows |-> events, ok |-> ok ])
          /\ pc' = IF ok THEN "advance" ELSE "raised"
          /\ total_saved' = IF ok THEN total_saved + Len(events)
                            ELSE total_saved
    /\ UNCHANGED << runFixed, current_time, chunks, df, events, baseline_df,
                    all_summaries, batch_index, queries >>

\* current_time = chunk_end; both flap.py also del df.
RunAdvance ==
    /\ pc = "advance"
    /\ current_time' = ChunkEnd(current_time, chunk_delta, end_dt)
    /\ df' = IF script \in { "flap", "bgp-mcp/flap" } THEN << >> ELSE df
    /\ pc' = "while"
    /\ UNCHANGED << runFixed, chunks, events, baseline_df, table, runVars >>

\* After the loop the server scripts print total_saved; the bgp-mcp
\* flap.py saves all_summaries with one to_sql, which has no except
\* (bgp-mcp flap.py 116-133, 154-159).
RunFinish ==
    /\ pc = "finish"
    /\ IF script = "bgp-mcp/flap" /\ all_summaries # << >>
       THEN \E ok \in BOOLEAN :
               /\ table' = WriteRows(table, all_summaries, ok)
               /\ writes' = Append(writes,
                                   [ rows |-> all_summaries, ok |-> ok ])
               /\ pc' = IF ok THEN "exited" ELSE "raised"
       ELSE /\ pc' = "exited"
            /\ UNCHANGED << table, writes >>
    /\ UNCHANGED << runFixed, current_time, chunks, df, events, baseline_df,
                    total_saved, all_summaries, batch_index, queries >>

NextRun ==
    \/ RunBaseline \/ RunWhile \/ RunLoad \/ RunDetect
    \/ RunSaveBatch \/ RunSaveEvents \/ RunAdvance \/ RunFinish

SpecRun == InitRun /\ [][NextRun]_vars

\* main() has ended: it returned, or an exception left it.
RunEnded == pc \in { "exited", "raised" }

\* C12: at the end of a run every insert that failed was followed by
\* another insert of the same batch, so no batch is given up after a single
\* attempt.
C12_FailedWriteIsRetried ==
    (script \in RunScripts /\ RunEnded) =>
        \A i \in 1..Len(writes) :
            ~ writes[i].ok =>
                \E j \in (i + 1)..Len(writes) : writes[j].rows = writes[i].rows

\* The chunks main() has loaded tile [start_dt, end_dt).
AllChunksLoaded ==
    IF start_dt < end_dt
    THEN /\ chunks # << >>
         /\ chunks[1][1] = start_dt
         /\ chunks[Len(chunks)][2] = end_dt
         /\ \A k \in 1..(Len(chunks) - 1) : chunks[k][2] = chunks[k + 1][1]
    ELSE chunks = << >>

\* C13: a run of a server detector whose insert failed in some chunk still
\* ends by returning, with every chunk of the window loaded, and the count
\* it reports is the number of events that are in the table.
C13_FailedWriteDoesNotHaltRun ==
    (script \in { "flap", "moas", "origin_hijack" } /\ RunEnded) =>
        /\ pc = "exited"
        /\ AllChunksLoaded
        /\ total_saved = Len(table)

\* C15: a run whose end_time is not after its start_time ends with an
\* error, having read nothing from the store and written nothing.
C15_InvalidRangeAborts ==
    (script \in RunScripts /\ RunEnded /\ end_dt <= start_dt) =>
        /\ pc = "raised"
        /\ queries = << >>
        /\ writes = << >>

\* The events main() holds that are not in the table.
UnsavedEvents ==
    { e \in Range(events) \cup Range(all_summaries) : e \notin Range(table) }

\* The chunks of which main() holds rows or unsaved events.
HeldChunks ==
    { r.chunk : r \in Range(df) } \cup { e.chunk : e \in UnsavedEvents }

\* C19: when a chunk is about to be loaded no event of an earlier chunk is
\* unsaved, and at every moment the rows and the unsaved events main() holds
\* are those of at most one chunk.
C19_ChunksHandledOneByOne ==
    script \in RunScripts =>
        /\ pc = "load" => UnsavedEvents = {}
        /\ Cardinality(HeldChunks) <= 1

(***************************************************************************)
(* run_pipeline_parallel.py and run_pipeline.py: run_analysis_scripts.     *)
(* Each detector script is a subprocess; futures[k] is the state of the    *)
(* k-th script of the list: "pending", "running", then its outcome: "0",   *)
(* "1" (a return code that is not 0) or "exception" (subprocess.run        *)
(* raised), and "collected" is the set of scripts as_completed has         *)
(* yielded, kept in args.                                                  *)
(***************************************************************************)
PipelineScripts == { "run_pipeline_parallel", "run_pipeline" }

\* run_pipeline_parallel.py 50-55 and run_pipeline.py 30-35.
ScriptList(scr) ==
    IF scr = "run_pipeline_parallel"
    THEN << "loop", "flap", "moas", "origin_hijack" >>
    ELSE << "flap", "hijack", "loop", "moas" >>

PipelineWorkers == { 1, 2, 4 }

Outcomes == { "0", "1", "exception" }

\* The number of scripts that are running.
Running(f) == Cardinality({ k \in 1..Len(f) : f[k] = "running" })

InitPipeline ==
    /\ script \in PipelineScripts
    /\ pc = "run_analysis_scripts"
    /\ \E max_workers \in PipelineWorkers :
          args = [ max_workers |-> max_workers, collected |-> {} ]
    /\ futures = [k \in 1..Len(ScriptList(script)) |-> "pending"]
    /\ results = << >>
    /\ failed = FALSE
    /\ df = << >> /\ events = << >>
    /\ NoWindow /\ NoBaseline /\ NoTable /\ NoService /\ NoRun /\ NoStore

pipelineFixed == << script, start_dt, end_dt, chunk_delta, current_time,
                    chunks, df, events, baseline_df, table, run, serviceVars,
                    runVars, storeVars >>

\* run_pipeline_parallel.py 66-71: a free worker of the executor takes the
\* first submitted script that has not started.
ParallelStart ==
    /\ script = "run_pipeline_parallel"
    /\ pc = "run_analysis_scripts"
    /\ Running(futures) < args.max_workers
    /\ \E k \in 1..Len(futures) :
          /\ futures[k] = "pending"
          /\ \A j \in 1..(k - 1) : futures[j] # "pending"
          /\ futures' = [futures EXCEPT ![k] = "running"]
    /\ UNCHANGED << pipelineFixed, pc, args, results, failed >>

\* run_pipeline_parallel.py 28-45: run_single_script ends.
ParallelScriptEnds ==
    /\ script = "run_pipeline_parallel"
    /\ \E k \in 1..Len(futures), outcome \in Outcomes :
          /\ futures[k] = "running"
          /\ futures' = [futures EXCEPT ![k] = outcome]
    /\ UNCHANGED << pipelineFixed, pc, args, results, failed >>

\* run_pipeline_parallel.py 74-93: one pass of the loop over as_completed.
ParallelCollect ==
    /\ script = "run_pipeline_parallel"
    /\ pc = "run_analysis_scripts"
    /\ \E k \in 1..Len(futures) :
          /\ futures[k] \in Outcomes
          /\ k \notin args.collected
          /\ args' = [args EXCEPT !.collected = @ \cup {k}]
          /\ results' = IF futures[k] = "exception" THEN results
                        ELSE Append(results,
                                    [ name       |-> ScriptList(script)[k],
                                      returncode |-> futures[k] ])
          /\ failed' = (failed \/ futures[k] # "0")
    /\ UNCHANGED << pipelineFixed, pc, futures >>

\* run_pipeline_parallel.py 95-116: after the loop, sys.exit(1) if failed.
ParallelEnds ==
    /\ script = "run_pipeline_parallel"
    /\ pc = "run_analysis_scripts"
    /\ args.collected = 1..Len(futures)
    /\ pc' = IF failed THEN "exit 1" ELSE "returned"
    /\ UNCHANGED << pipelineFixed, args, futures, results, failed >>

\* run_pipeline.py 37-45: one pass of the for loop: the next script runs
\* to its end; a return code that is not 0 ends the pipeline with
\* sys.exit(1), and so does an exception of subprocess.run, as a traceback.
SequentialRun ==
    /\ script = "run_pipeline"
    /\ pc = "run_analysis_scripts"
    /\ \E k \in 1..Len(futures), outcome \in Outcomes :
          /\ futures[k] = "pending"
          /\ \A j \in 1..(k - 1) : futures[j] # "pending"
          /\ futures' = [futures EXCEPT ![k] = outcome]
          /\ failed' = (outcome # "0")
          /\ pc' = IF outcome # "0" THEN "exit 1"
                   ELSE IF k = Len(futures) THEN "returned"
                   ELSE "run_analysis_scripts"
    /\ UNCHANGED << pipelineFixed, args, results >>

NextPipeline ==
    \/ ParallelStart \/ ParallelScriptEnds \/ ParallelCollect \/ ParallelEnds
    \/ SequentialRun

SpecPipeline == InitPipeline /\ [][NextPipeline]_vars

\* run_analysis_scripts has ended.
PipelineEnded == pc \in { "exit 1", "returned" }

\* C14: when run_analysis_scripts has ended, every detector script was
\* started and ran to its end, and the run ended with failure if and only
\* if at least one script failed.
C14_FailureDoesNotBlockOthers ==
    (script \in PipelineScripts /\ PipelineEnded) =>
        /\ \A k \in 1..Len(futures) : futures[k] \in Outcomes
        /\ (pc = "exit 1") <=> (\E k \in 1..Len(futures) : futures[k] # "0")

(***************************************************************************)
(* The reads of the store: fetch_bgp_updates of flap.py and loop.py and    *)
(* load_announces of moas.py.  Times are half hours; partitions[d] holds   *)
(* the rows of the table update_entries_<d> of UTC day d, and a day that   *)
(* is not in its domain has no table.                                      *)
(***************************************************************************)
SourceScripts == { "flap", "loop", "moas" }

\* The instants tried, around the midnight that ends day 0.
SourceTimes == { 46, 47, 48, 49 }

SourceDays == { 0, 1 }

\* strftime('%Y%m%d') / .date(): the UTC day of an instant.
DayOf(ts) == ts \div HalfHoursPerDay

\* moas.py 28-32: day_range(start_dt, end_dt)
day_range(start, end) ==
    [k \in 1..(DayOf(end) - DayOf(start) + 1) |-> DayOf(start) + k - 1]

\* flap.py 22-35, loop.py 31-55: update_entries_<day of start_time> WHERE
\* timestamp BETWEEN start AND end ORDER BY timestamp; the frame is sorted
\* by timestamp again at the end.  The query raises if the table is
\* missing.
fetch_bgp_updates(parts, start, end) ==
    SortByTimestamp(SelectSeq(parts[DayOf(start)],
                    LAMBDA r : start <= r.timestamp /\ r.timestamp <= end))

FetchRaises(parts, start) == DayOf(start) \notin DOMAIN parts

\* A load that also takes the rows stamped with the end instant.
load_announces_closed(parts, start, end) ==
    LET days == SelectSeq(day_range(start, end),
                          LAMBDA d : d \in DOMAIN parts)
        frames == [k \in 1..Len(days) |->
                     SelectSeq(parts[days[k]],
                        LAMBDA r : start <= r.timestamp /\ r.timestamp <= end)]
    IN  SortByTimestamp(Flatten(frames))

\* moas.py 40-71: per day of day_range the rows with start <= timestamp <
\* end; a query that raises (no table) is skipped; the frames are
\* concatenated and sorted by timestamp.
load_announces(parts, start, end) ==
    LET days == SelectSeq(day_range(start, end),
                          LAMBDA d : d \in DOMAIN parts)
        frames == [k \in 1..Len(days) |->
                     SelectSeq(parts[days[k]],
                        LAMBDA r : start <= r.timestamp /\ r.timestamp < end)]
    IN  SortByTimestamp(Flatten(frames))

InitSource ==
    /\ script \in SourceScripts
    /\ pc = "store"
    /\ start_dt \in SourceTimes /\ end_dt \in SourceTimes
    /\ start_dt < end_dt
    /\ \E days \in SUBSET SourceDays : partitions = [d \in days |-> << >>]
    /\ df = << >> /\ events = << >> /\ args = << >>
    /\ chunk_delta = 0 /\ current_time = 0 /\ chunks = << >>
    /\ NoBaseline /\ NoTable /\ NoService /\ NoRun /\ NoPipeline

sourceFixed == << script, start_dt, end_dt, chunk_delta, current_time, chunks,
                  args, events, baseline_df, table, run, serviceVars, runVars,
                  pipelineVars >>

\* The ingestion has stored one more update, in the table of its day.
SourceStore ==
    /\ pc = "store"
    /\ \E ts \in SourceTimes :
          /\ DayOf(ts) \in DOMAIN partitions
          /\ \A d \in DOMAIN partitions :
                \A i \in 1..Len(partitions[d]) : partitions[d][i].timestamp < ts
          /\ partitions' =
                [partitions EXCEPT ![DayOf(ts)] =
                    Append(@, [ timestamp |-> ts, peer_as |-> 10,
                                as_path   |-> << 100 >>,
                                prefix    |-> "10.0.0.0/16" ])]
    /\ UNCHANGED << sourceFixed, pc, df >>

\* flap.py main 211 / loop.py main 171: df = fetch_bgp_updates(start, end)
SourceFetch ==
    /\ pc = "store"
    /\ script \in { "flap", "loop" }
    /\ IF FetchRaises(partitions, start_dt)
       THEN pc' = "raised" /\ df' = df
       ELSE pc' = "fetched"
            /\ df' = fetch_bgp_updates(partitions, start_dt, end_dt)
    /\ UNCHANGED << sourceFixed, partitions >>

\* moas.py main 188: df = load_announces(current_time, chunk_end)
SourceLoad ==
    /\ pc = "store"
    /\ script = "moas"
    /\ df' = load_announces(partitions, start_dt, end_dt)
    /\ pc' = "fetched"
    /\ UNCHANGED << sourceFixed, partitions >>

NextSource == SourceStore \/ SourceFetch \/ SourceLoad

SpecSource == InitSource /\ [][NextSource]_vars

\* The days the window [start_dt, end_dt) overlaps.
OverlappedDays == { d \in SourceDays : \E ts \in start_dt..(end_dt - 1) :
                                          ts \div HalfHoursPerDay = d }

\* The stored rows whose timestamp lies in the window.
StoredInWindow ==
    UNION { { r \in Range(partitions[d]) :
                start_dt <= r.timestamp /\ r.timestamp < end_dt } :
            d \in DOMAIN partitions }

SourceEnded == pc \in { "fetched", "raised" }

\* C16: when the table of a day the window overlaps is missing, the read
\* ends without an error and returns the rows of the window that the
\* existing tables hold.
C16_MissingPartitionIsEmpty ==
    (script \in SourceScripts /\ SourceEnded
       /\ ~ (OverlappedDays \subseteq DOMAIN partitions)) =>
        /\ pc = "fetched"
        /\ StoredInWindow \subseteq Range(df)

\* C17: when every day the window overlaps has its table, the read returns
\* every stored row whose timestamp lies in the window, and the rows it
\* returns are in timestamp order.
C17_WindowReadsEveryOverlappedDay ==
    (script \in SourceScripts /\ SourceEnded
       /\ OverlappedDays \subseteq DOMAIN partitions) =>
        /\ pc = "fetched"
        /\ StoredInWindow \subseteq Range(df)
        /\ \A i \in 1..(Len(df) - 1) : df[i].timestamp <= df[i + 1].timestamp

(***************************************************************************)
(* origin_hijack.py main(), one whole run with a store: the lookback is    *)
(* loaded and the baseline built, then every chunk is loaded, checked and  *)
(* saved.  Times are half hours.  args lists the baseline handed to each   *)
(* call of detect_origin_hijack_whole_window.                              *)
(***************************************************************************)
MaxBaselineChunks == 2

\* timedelta(days=LOOKBACK_DAYS)
Lookback == LOOKBACK_DAYS * HalfHoursPerDay

\* The starts tried: the midnight that begins day 8, and an hour later.
BaselineStarts == { 8 * HalfHoursPerDay, 8 * HalfHoursPerDay + 2 }

\* The instants of the stored announces tried, relative to start_dt: just
\* before the lookback, at its first instant, at its last, at start_dt and
\* in the second chunk.
StoredOffsets == << 0 - Lookback - 1, 0 - Lookback, 0 - 1, 0, 2 >>

\* The store that holds, for each k with an origin chosen, an announce of
\* 10.0.1.0/24 by that origin at start + StoredOffsets[k].
StoreOf(start, origins) ==
    LET kept == SelectSeq([k \in 1..Len(StoredOffsets) |-> k],
                          LAMBDA k : origins[k] # None)
        rows == [i \in 1..Len(kept) |->
                    [ timestamp |-> start + StoredOffsets[kept[i]],
                      peer_as   |-> 10,
                      as_path   |-> origins[kept[i]],
                      prefix    |-> "10.0.1.0/24" ]]
    IN  [d \in 0..(DayOf(start) + 1) |->
            SelectSeq(rows, LAMBDA r : DayOf(r.timestamp) = d)]

InitOriginMain ==
    /\ script = "origin_hijack"
    /\ pc = "baseline"
    /\ start_dt \in BaselineStarts
    /\ \E n \in 1..MaxBaselineChunks :
          end_dt = start_dt + (n - 1) * ChunkDelta(script) + 1
    /\ chunk_delta = ChunkDelta(script)
    /\ current_time = start_dt
    /\ \E origins \in [1..Len(StoredOffsets) -> { None, << 100 >>, << 200 >> }] :
          partitions = StoreOf(start_dt, origins)
    /\ chunks = << >> /\ args = << >>
    /\ df = << >> /\ events = << >>
    /\ total_saved = 0 /\ all_summaries = << >> /\ batch_index = 0
    /\ queries = << >> /\ writes = << >>
    /\ NoBaseline /\ NoTable /\ NoService /\ NoPipeline

originMainFixed == << script, start_dt, end_dt, chunk_delta, run, serviceVars,
                      pipelineVars, storeVars, all_summaries, batch_index >>

\* origin_hijack.py 205-207
OriginMainBaseline ==
    /\ pc = "baseline"
    /\ queries' = Append(queries, [ start |-> start_dt - Lookback,
                                    end   |-> start_dt ])
    /\ baseline_df' = build_baseline(
                         load_announces(partitions, start_dt - Lookback,
                                        start_dt))
    /\ pc' = "while"
    /\ UNCHANGED << originMainFixed, current_time, chunks, df, args, events,
                    table, total_saved, writes >>

\* origin_hijack.py 212-228: one pass of the while loop: the chunk is
\* loaded; a frame that is not empty is checked against baseline_df and the
\* events found are saved, which raises if the insert fails.
OriginMainChunk ==
    /\ pc = "while"
    /\ current_time < end_dt
    /\ LET chunk_end  == ChunkEnd(current_time, chunk_delta, end_dt)
           df_current == load_announces(partitions, current_time, chunk_end)
           cur        == WithOrigin(df_current)
       IN  /\ queries' = Append(queries, [ start |-> current_time,
                                           end   |-> chunk_end ])
           /\ chunks' = Append(chunks, << current_time, chunk_end >>)
           /\ df' = df_current
           /\ IF df_current = << >>
              THEN /\ pc' = "while"
                   /\ UNCHANGED << args, events, table, total_saved, writes >>
              ELSE \E idxmax \in [AnnouncedPrefixes(cur) -> Origins(cur)],
                      ok \in BOOLEAN :
                      /\ \A p \in AnnouncedPrefixes(cur) :
                            idxmax[p] \in TopOrigins(
                                SelectSeq(cur, LAMBDA r : r.prefix = p))
                      /\ events' = detect_origin_hijack_whole_window(
                                      df_current, baseline_df, TRUE, idxmax, 1)
                      /\ args' = Append(args, baseline_df)
                      /\ IF events' = << >>
                         THEN /\ pc' = "while"
                              /\ UNCHANGED << table, total_saved, writes >>
                         ELSE /\ table' = WriteRows(table, events', ok)
                              /\ writes' = Append(writes, [ rows |-> events',
                                                            ok   |-> ok ])
                              /\ total_saved' = IF ok
                                                THEN total_saved + Len(events')
                                                ELSE total_saved
                              /\ pc' = IF ok THEN "while" ELSE "raised"
           /\ current_time' = chunk_end
    /\ UNCHANGED << originMainFixed, baseline_df >>

\* origin_hijack.py 212, 230: the loop ends and the total is printed.
OriginMainExit ==
    /\ pc = "while"
    /\ ~ (current_time < end_dt)
    /\ pc' = "exited"
    /\ UNCHANGED << originMainFixed, current_time, chunks, df, args, events,
                    baseline_df, table, total_saved, queries, writes >>

NextOriginMain == OriginMainBaseline \/ OriginMainChunk \/ OriginMainExit

SpecOriginMain == InitOriginMain /\ [][NextOriginMain]_vars

\* The stored announces with start_dt - lookback <= timestamp < start_dt.
LookbackAnnounces ==
    SortByTimestamp(Flatten(
        [k \in 1..(DayOf(start_dt) + 2) |->
            SelectSeq(partitions[k - 1],
                LAMBDA r : /\ start_dt - Lookback <= r.timestamp
                           /\ r.timestamp < start_dt)]))

\* The reads of the lookback window among the reads of the run.
LookbackQueries ==
    { i \in 1..Len(queries) : queries[i].end = start_dt }

\* C18: before the baseline is built no chunk has been loaded or checked;
\* once it is built it is the baseline of exactly the stored announces
\* with timestamps in [start - lookback, start), the lookback has been read
\* once, every detection so far was handed that baseline, and no later
\* step of the run changes it.
C18_BaselineBuiltOnceBeforeChunks ==
    /\ [](script = "origin_hijack" =>
            IF pc = "baseline"
            THEN chunks = << >> /\ args = << >> /\ queries = << >>
            ELSE /\ baseline_df = build_baseline(LookbackAnnounces)
                 /\ Cardinality(LookbackQueries) = 1
                 /\ queries[1].start = start_dt - Lookback
                 /\ \A i \in 1..Len(args) : args[i] = baseline_df)
    /\ [][pc # "baseline" => baseline_df' = baseline_df]_vars

\* A run that has checked two chunks against a baseline, which does not
\* count the announces stored just before the lookback and at start_dt.
C18_Witness ==
    /\ script = "origin_hijack" /\ pc = "exited"
    /\ Len(args) = 2
    /\ baseline_df # << >>
    /\ baseline_df[1].count = 2
    /\ \E d \in DOMAIN partitions :
          \E r \in Range(partitions[d]) : r.timestamp = start_dt - Lookback - 1

(***************************************************************************)
(* loop.py, analyze_loop_anomalies: the events against the looping rows.   *)
(***************************************************************************)
\* The rows of the frame whose path has_as_loop flags.
LoopingRows == { i \in 1..Len(df) : has_as_loop(df[i].as_path) }

\* C20: the detector emits one event per row whose AS_PATH holds a loop,
\* carrying the path of that row: as many events as looping rows, also
\* when several of them are of one prefix, and each looping row's path is
\* the path of an event of its prefix.
C20_OneLoopEventPerRecord ==
    (script = "loop" /\ pc = "save") =>
        /\ Len(events) = Cardinality(LoopingRows)
        /\ \A i \in LoopingRows :
              \E k \in 1..Len(events) :
                  /\ events[k].prefix = df[i].prefix
                  /\ events[k].as_path = StrPath(df[i].as_path)

(***************************************************************************)
(* flap.py and bgp-mcp flap.py: the frame fetch_bgp_updates builds from    *)
(* the stored updates, and what analyze_flap_anomalies makes of it when    *)
(* timestamps tie.  partitions[0] is the table of the day, its rows in     *)
(* ingestion order (entry_id).                                             *)
(***************************************************************************)
MaxTieRows == 3

TieTimes == {0, 5}

\* The permutations of 1..n.
Perms(n) == { p \in [1..n -> 1..n] : \A i, j \in 1..n : p[i] = p[j] => i = j }

\* The arrangements of the rows of s in ascending timestamp, the rows of
\* equal timestamp in any order.
TimestampOrders(s) ==
    { [i \in 1..Len(s) |-> s[p[i]]] : p \in
        { q \in Perms(Len(s)) :
            \A i \in 1..(Len(s) - 1) :
                s[q[i]].timestamp <= s[q[i+1]].timestamp } }

\* flap.py 22-67, bgp-mcp flap.py 22-55.  The query is ORDER BY timestamp ASC
\* with no second key; the announces and the withdraws are taken apart and
\* concatenated, and combined.sort_values('timestamp') sorts with the default
\* kind (quicksort), which is not stable: the rows of equal timestamp come
\* out in an order neither the query nor the sort fixes.
fetch_bgp_updates_frames(s) == TimestampOrders(s)

InitFlapTies ==
    /\ script \in FlapScripts
    /\ pc = "store"
    /\ partitions = [d \in {0} |-> << >>]
    /\ NoFrame /\ NoWindow /\ NoBaseline /\ NoTable
    /\ NoService /\ NoRun /\ NoPipeline

flapTiesFixed == << script, start_dt, end_dt, chunk_delta, current_time,
                    chunks, baseline_df, table, run, serviceVars, runVars,
                    pipelineVars >>

\* The ingestion stores one more update of (10.0.0.0/16, peer 10).
FlapTiesStore ==
    /\ pc = "store"
    /\ Len(partitions[0]) < MaxTieRows
    /\ \E ts \in TieTimes, event \in {"A", "W"}, as_path \in FlapPaths :
          /\ IF partitions[0] = << >> THEN TRUE
             ELSE partitions[0][Len(partitions[0])].timestamp <= ts
          /\ event = "W" => as_path = << 100 >>
          /\ partitions' =
                [partitions EXCEPT ![0] =
                    Append(@, [ timestamp |-> ts,
                                peer_as   |-> 10,
                                as_path   |-> as_path,
                                prefix    |-> "10.0.0.0/16",
                                event     |-> event ])]
    /\ UNCHANGED << flapTiesFixed, pc, df, args, events >>

\* flap.py main 211: df = fetch_bgp_updates(...)
FlapTiesFetch ==
    /\ pc = "store"
    /\ partitions[0] # << >>
    /\ df' \in fetch_bgp_updates_frames(partitions[0])
    /\ pc' = "fetched"
    /\ UNCHANGED << flapTiesFixed, partitions, args, events >>

\* flap.py main 214-215: summaries = analyze_flap_anomalies(df, ...)
FlapTiesAnalyze ==
    /\ pc = "fetched"
    /\ \E thr \in FlapThresholds, mn \in FlapMinTransitions,
          cpc \in BOOLEAN :
          /\ args' = [ flap_threshold_seconds |-> thr,
                       min_flap_transitions   |-> mn,
                       consider_path_change   |-> cpc ]
          /\ events' = analyze_flap_anomalies(script, df, thr, mn, cpc)
    /\ pc' = "analyzed"
    /\ UNCHANGED << flapTiesFixed, partitions, df >>

NextFlapTies == FlapTiesStore \/ FlapTiesFetch \/ FlapTiesAnalyze

SpecFlapTies == InitFlapTies /\ [][NextFlapTies]_vars

\* The events of the stored rows taken in timestamp order with ingestion
\* order as the tie-break.
IngestionOrderEvents ==
    analyze_flap_anomalies(script, SortByTimestamp(partitions[0]),
                           args.flap_threshold_seconds,
                           args.min_flap_transitions,
                           args.consider_path_change)

\* C21: rows of one (prefix, peer_as) that share a timestamp are ordered by
\* ingestion order, so the events (and each flap_count) of an ingested
\* sequence are those of that order whatever the sort does with equal
\* timestamps; a group of one record gives no event.
C21_FlapDeterministicUnderTies ==
    pc = "analyzed" =>
        /\ events = IngestionOrderEvents
        /\ Len(partitions[0]) = 1 => events = << >>

(***************************************************************************)
(* AS_PATH normalization of the streamers:                                 *)
(*   streamer/bgpstream.py       parse_as_path (a whitespace-joined text)  *)
(*   streamer/rislive_stream.py  parse_as_path (a JSON list)               *)
(*   server/bgp_realtime_streaming.py  _process_bgp_update (a text)        *)
(* df is the raw AS_PATH of one update, a sequence of entries.  An entry   *)
(* of a text path is one whitespace-separated token; an entry of a JSON    *)
(* path is [kind, value], kind "int", "str", "null" or "list".             *)
(***************************************************************************)
MaxAsPathEntries == 3

AsPathScripts == {"bgpstream", "rislive_stream", "bgp_realtime_streaming"}

\* The tokens tried.  "sup2" stands for the one-character token U+00B2
\* (superscript two).
AsPathTokens == {"100", "200", "abc", "{300}", "{300,400}", "sup2"}

AsPathJsonEntries ==
    { [kind |-> "int",  value |-> << 100 >>],
      [kind |-> "int",  value |-> << 200 >>],
      [kind |-> "str",  value |-> << >>],
      [kind |-> "null", value |-> << >>],
      [kind |-> "list", value |-> << >>],
      [kind |-> "list", value |-> << 300, 400 >>] }

AsPathEntries(scr) ==
    IF scr = "rislive_stream" THEN AsPathJsonEntries ELSE AsPathTokens

\* part.strip('{}[]')
StripBrackets(part) ==
    CASE part = "{300}"     -> "300"
      [] part = "{300,400}" -> "300,400"
      [] OTHER              -> part

\* str.isdigit(): every character is a digit character, which U+00B2 is.
isdigit(part) == part \in {"100", "200", "300", "sup2"}

\* int(part) raises ValueError for a digit character that is not decimal.
IntRaises(part) == part = "sup2"

int(part) ==
    CASE part = "100" -> 100
      [] part = "200" -> 200
      [] part = "300" -> 300

\* bgpstream.py 55-60 raises when one of the int() calls raises.
ParseAsPathRaises(as_path_str) ==
    \E i \in 1..Len(as_path_str) :
        /\ isdigit(StripBrackets(as_path_str[i]))
        /\ IntRaises(StripBrackets(as_path_str[i]))

\* bgpstream.py 49-62.
RECURSIVE parse_as_path(_)
parse_as_path(as_path_str) ==
    IF as_path_str = << >> THEN << >>
    ELSE LET part == StripBrackets(Head(as_path_str))
         IN  (IF isdigit(part) THEN << int(part) >> ELSE << >>)
             \o parse_as_path(Tail(as_path_str))

\* rislive_stream.py 89-104: of an AS set only the first ASN is used.
RECURSIVE parse_as_path_list(_)
parse_as_path_list(as_path) ==
    IF as_path = << >> THEN << >>
    ELSE LET asn == Head(as_path)
         IN  (IF asn.kind = "list"
              THEN IF asn.value # << >> THEN << asn.value[1] >> ELSE << >>
              ELSE IF asn.kind = "int" THEN asn.value ELSE << >>)
             \o parse_as_path_list(Tail(as_path))

\* bgp_realtime_streaming.py 94-96:
\* [int(asn) for asn in elem.fields['as-path'].split() if asn.isdigit()]
ProcessUpdateRaises(fields) ==
    \E i \in 1..Len(fields) : isdigit(fields[i]) /\ IntRaises(fields[i])

RECURSIVE process_as_path(_)
process_as_path(fields) ==
    IF fields = << >> THEN << >>
    ELSE (IF isdigit(Head(fields)) THEN << int(Head(fields)) >> ELSE << >>)
         \o process_as_path(Tail(fields))

InitAsPath ==
    /\ script \in AsPathScripts
    /\ pc = "elem"
    /\ NoFrame /\ NoWindow /\ NoBaseline /\ NoTable /\ NoOther

asPathFixed == << script, start_dt, end_dt, chunk_delta, current_time, chunks,
                  args, baseline_df, table, run, otherVars >>

\* The update carries one more AS_PATH entry.
AsPathEntry ==
    /\ pc = "elem"
    /\ Len(df) < MaxAsPathEntries
    /\ \E e \in AsPathEntries(script) : df' = Append(df, e)
    /\ UNCHANGED << asPathFixed, pc, events >>

\* bgpstream.py process_record 71-99: the record is appended to the batch,
\* or the except clause logs the error and the loop goes to the next elem.
BgpstreamProcessRecord ==
    /\ pc = "elem"
    /\ script = "bgpstream"
    /\ IF ParseAsPathRaises(df)
       THEN pc' = "logged" /\ events' = events
       ELSE /\ pc' = "appended"
            /\ events' = << [ as_path   |-> parse_as_path(df),
                              origin_as |->
                                 IF parse_as_path(df) # << >>
                                 THEN parse_as_path(df)[Len(parse_as_path(df))]
                                 ELSE 0 ] >>
    /\ UNCHANGED << asPathFixed, df >>

\* rislive_stream.py process_message 108-177, for a message that announces
\* one prefix.
RisliveProcessMessage ==
    /\ pc = "elem"
    /\ script = "rislive_stream"
    /\ pc' = "appended"
    /\ events' = << [ as_path   |-> parse_as_path_list(df),
                      origin_as |->
                         IF parse_as_path_list(df) # << >>
                         THEN parse_as_path_list(df)[Len(parse_as_path_list(df))]
                         ELSE 0 ] >>
    /\ UNCHANGED << asPathFixed, df >>

\* bgp_realtime_streaming.py _process_bgp_update 84-122: the entry is
\* appended to batch_buffer (as_path None when the list is empty), or the
\* except clause logs the error and the entry is not appended.
ProcessBgpUpdate ==
    /\ pc = "elem"
    /\ script = "bgp_realtime_streaming"
    /\ IF ProcessUpdateRaises(df)
       THEN pc' = "logged" /\ events' = events
       ELSE /\ pc' = "appended"
            /\ events' = << [ as_path |->
                                 IF process_as_path(df) # << >>
                                 THEN process_as_path(df) ELSE << >> ] >>
    /\ UNCHANGED << asPathFixed, df >>

NextAsPath ==
    \/ AsPathEntry
    \/ BgpstreamProcessRecord
    \/ RisliveProcessMessage
    \/ ProcessBgpUpdate

SpecAsPath == InitAsPath /\ [][NextAsPath]_vars

\* The well-formed ASNs of a raw path in their order: the entries that are
\* a decimal number (a JSON integer, a token of decimal digits).
RECURSIVE WellFormedAsns(_, _)
WellFormedAsns(scr, raw) ==
    IF raw = << >> THEN << >>
    ELSE (IF scr = "rislive_stream"
          THEN IF Head(raw).kind = "int" THEN Head(raw).value ELSE << >>
          ELSE IF Head(raw) \in {"100", "200"}
               THEN << int(Head(raw)) >> ELSE << >>)
         \o WellFormedAsns(scr, Tail(raw))

\* C22: the malformed (non-numeric, null) entries of an AS_PATH are dropped,
\* the well-formed ASNs are kept in their order, and the record is still
\* produced: no malformed entry aborts it.
C22_MalformedAsPathEntriesDropped ==
    pc \in {"appended", "logged"} =>
        /\ pc = "appended"
        /\ events[1].as_path = WellFormedAsns(script, df)

(***************************************************************************)
(* subprefix_hijack.py, continued: rows whose prefix string is malformed.  *)
(***************************************************************************)
\* The frame without the rows whose prefix ipaddress rejects.
WellFormedRows(d) == SelectSeq(d, LAMBDA r : r.prefix \in ValidPrefixTexts)

\* C23: a row with a malformed prefix string is left out of the containment
\* comparison and changes nothing else: it aborts nothing, and the events
\* are those of the frame without the malformed rows.
C23_MalformedPrefixChangesNothing ==
    (script = "subprefix_hijack" /\ pc # "load") =>
        /\ pc = "TypeError" <=> DetectRaises(WellFormedRows(df))
        /\ pc = "detected" =>
              events = detect_subprefix_hijack(WellFormedRows(df), 1)

(***************************************************************************)
(* flap.py and moas.py main(), one chunked run over a store of one day:    *)
(* which stored rows each chunk's load returns.  Times are half hours;     *)
(* every chunk is one hour.  queries lists, per chunk, the bounds handed   *)
(* to the load and the frame it returned.                                  *)
(***************************************************************************)
MaxChunkedTime == 4

ChunkedScripts == {"flap", "moas"}

ChunkedEnds == {3, 4}

InitChunked ==
    /\ script \in ChunkedScripts
    /\ pc = "store"
    /\ start_dt = 0
    /\ end_dt \in ChunkedEnds
    /\ chunk_delta = 2
    /\ current_time = start_dt
    /\ chunks = << >>
    /\ partitions = [d \in {0} |-> << >>]
    /\ queries = << >>
    /\ total_saved = 0 /\ all_summaries = << >> /\ batch_index = 0
    /\ writes = << >>
    /\ NoFrame /\ NoBaseline /\ NoTable /\ NoService /\ NoPipeline

chunkedFixed == << script, start_dt, end_dt, chunk_delta, args, events,
                   baseline_df, table, run, serviceVars, pipelineVars,
                   total_saved, all_summaries, batch_index, writes >>

\* The ingestion has stored one more announce, later than the ones before.
ChunkedStore ==
    /\ pc = "store"
    /\ \E ts \in 0..MaxChunkedTime :
          /\ \A i \in 1..Len(partitions[0]) : partitions[0][i].timestamp < ts
          /\ partitions' =
                [partitions EXCEPT ![0] =
                    Append(@, [ timestamp |-> ts, peer_as |-> 10,
                                as_path   |-> << 100 >>,
                                prefix    |-> "10.0.0.0/16" ])]
    /\ UNCHANGED << chunkedFixed, pc, current_time, chunks, df, queries >>

\* main() is started.
ChunkedStart ==
    /\ pc = "store"
    /\ pc' = "while"
    /\ UNCHANGED << chunkedFixed, current_time, chunks, df, queries,
                    partitions >>

\* One iteration of the loop of flap.py 208-225 / moas.py 183-201: the chunk
\* is loaded (and, when the frame is not empty, handed to the detector),
\* and current_time = chunk_end.
ChunkedIteration ==
    /\ pc = "while"
    /\ current_time < end_dt
    /\ LET chunk_end == ChunkEnd(current_time, chunk_delta, end_dt)
           frame == IF script = "flap"
                    THEN fetch_bgp_updates(partitions, current_time, chunk_end)
                    ELSE load_announces(partitions, current_time, chunk_end)
       IN  /\ df' = frame
           /\ queries' = Append(queries, [ start |-> current_time,
                                           end   |-> chunk_end,
                                           frame |-> frame ])
           /\ chunks' = Append(chunks, << current_time, chunk_end >>)
           /\ current_time' = chunk_end
    /\ UNCHANGED << chunkedFixed, pc, partitions >>

\* The loop condition fails.
ChunkedExit ==
    /\ pc = "while"
    /\ ~ (current_time < end_dt)
    /\ pc' = "done"
    /\ UNCHANGED << chunkedFixed, current_time, chunks, df, queries,
                    partitions >>

NextChunked ==
    ChunkedStore \/ ChunkedStart \/ ChunkedIteration \/ ChunkedExit

SpecChunked == InitChunked /\ [][NextChunked]_vars

\* The chunks whose frame holds the stored row r.
ChunksHolding(r) == { k \in 1..Len(queries) : r \in Range(queries[k].frame) }

\* C24: at the end of a chunked run every stored row with a timestamp in
\* [start, end) was loaded in exactly one chunk, the chunk whose
\* [start, end) holds the timestamp (so a row on an interior boundary is in
\* the chunk that starts there only), and a row stamped end or later in none.
C24_EachRecordInExactlyOneChunk ==
    (script \in ChunkedScripts /\ pc = "done") =>
        \A r \in Range(partitions[0]) :
            ChunksHolding(r) =
                { k \in 1..Len(queries) :
                    /\ queries[k].start <= r.timestamp
                    /\ r.timestamp < queries[k].end }

(***************************************************************************)
(* origin_hijack.py: build_baseline over a lookback frame of any shape.    *)
(* df is the frame load_announces returned for the lookback window.        *)
(***************************************************************************)
MaxLookbackRows == 4

\* The announces tried: (prefix, as_path).
LookbackAnnouncesTried ==
    { << p, path >> : p \in { "10.0.0.0/16", "10.0.1.0/24" },
                      path \in { << >>, << 100 >>, << 200 >>, << 300, 200 >> } }

InitBaseline ==
    /\ script = "origin_hijack"
    /\ pc = "lookback"
    /\ NoFrame /\ NoWindow /\ NoBaseline /\ NoTable /\ NoOther

baselineFixed == << script, start_dt, end_dt, chunk_delta, current_time,
                    chunks, args, events, table, run, otherVars >>

\* One more announce of the lookback window, in timestamp order.
BaselineLoadRow ==
    /\ pc = "lookback"
    /\ Len(df) < MaxLookbackRows
    /\ \E a \in LookbackAnnouncesTried :
          df' = Append(df, [ timestamp |-> Len(df) + 1,
                             peer_as   |-> 10,
                             as_path   |-> a[2],
                             prefix    |-> a[1] ])
    /\ UNCHANGED << baselineFixed, pc, baseline_df >>

\* origin_hijack.py 207: baseline_df = build_baseline(df_lookback)
BaselineBuild ==
    /\ pc = "lookback"
    /\ baseline_df' = build_baseline(df)
    /\ pc' = "built"
    /\ UNCHANGED << baselineFixed, df >>

NextBaseline == BaselineLoadRow \/ BaselineBuild

SpecBaseline == InitBaseline /\ [][NextBaseline]_vars

\* The entries of the baseline for a prefix.
BaselineEntries(p) == SelectSeq(baseline_df, LAMBDA b : b.prefix = p)

\* C25: build_baseline returns, for every prefix with at least one lookback
\* announce that has a non-empty AS_PATH, exactly one entry; its
\* baseline_origin is an origin no other origin of the prefix outnumbers and
\* its count is the number of announces of the prefix from that origin.  A
\* prefix without such an announce has no entry.
C25_BaselineIsMostFrequentOrigin ==
    (script = "origin_hijack" /\ pc = "built") =>
        /\ \A k \in 1..Len(baseline_df) :
              baseline_df[k].prefix \in AnnouncedPrefixes(df)
        /\ \A p \in AnnouncedPrefixes(df) :
              LET rows == SelectSeq(AnnouncesOf(df, p), HasOrigin)
                  got  == BaselineEntries(p)
              IN  IF rows = << >> THEN got = << >>
                  ELSE /\ Len(got) = 1
                       /\ got[1].baseline_origin \in DominantOrigins(rows)
                       /\ got[1].count
                             = AnnouncesFrom(rows, got[1].baseline_origin)

\* A lookback in which 10.0.1.0/24 is seen from origin 200 twice and from
\* origin 100 once, and 10.0.0.0/16 only with an empty AS_PATH.
C25_Witness ==
    /\ script = "origin_hijack" /\ pc = "built"
    /\ Len(df) = 4
    /\ BaselineEntries("10.0.0.0/16") = << >>
    /\ "10.0.0.0/16" \in AnnouncedPrefixes(df)
    /\ \E k \in 1..Len(baseline_df) :
          /\ baseline_df[k].prefix = "10.0.1.0/24"
          /\ baseline_df[k].baseline_origin = 200
          /\ baseline_df[k].count = 2
    /\ \E i \in 1..Len(df) :
          df[i].prefix = "10.0.1.0/24" /\ df[i].as_path = << 100 >>

(***************************************************************************)
(* bgp_realtime_streaming.py, continued: what becomes of each buffered     *)
(* record, and the table each record is written to.                        *)
(***************************************************************************)
\* The calls of _insert_batch whose batch holds the record id.
HandedOver(id) ==
    { k \in 1..Len(inserted) :
        \E i \in 1..Len(inserted[k].batch) : inserted[k].batch[i].id = id }

\* C26: under every interleaving of the reader, the batch thread and the
\* final flush each record appended to batch_buffer is handed to
\* _insert_batch exactly once: never twice, and once the process has exited
\* no appended record has been left out.
C26_EachRecordHandedOverOnce ==
    script = "bgp_realtime_streaming" =>
        /\ \A id \in AcceptedRecords : Cardinality(HandedOver(id)) <= 1
        /\ pc = "exited" =>
              \A id \in AcceptedRecords : Cardinality(HandedOver(id)) = 1

\* C27: every record the streamer writes goes into the table named after
\* the date of the record's own timestamp, also when the date changes
\* between the buffering of the record and the write of its batch.
C27_RecordInPartitionOfItsDate ==
    script = "bgp_realtime_streaming" =>
        \A k \in 1..Len(inserted) :
            inserted[k].ok =>
                \A i \in 1..Len(inserted[k].batch) :
                    inserted[k].batch[i].date = inserted[k].table_name

(***************************************************************************)
(* flap.py and bgp-mcp flap.py main(), one chunked run over a store of one *)
(* day: each chunk is fetched, analyzed and saved.  Timestamps are         *)
(* seconds and a chunk is FlapRunDelta of them.  queries lists, per chunk, *)
(* the bounds, the frame fetched and the summaries returned; the inserts   *)
(* succeed.                                                                *)
(***************************************************************************)
MaxFlapRunRows == 4

\* pd.Timedelta(hours=1) (hours=6 in the bgp-mcp flap.py), scaled down.
FlapRunDelta == 4

\* The window is two chunks long.
FlapRunEnd == 2 * FlapRunDelta

InitFlapRun ==
    /\ script \in FlapScripts
    /\ pc = "store"
    /\ start_dt = 0
    /\ end_dt = FlapRunEnd
    /\ chunk_delta = FlapRunDelta
    /\ current_time = start_dt
    /\ chunks = << >>
    /\ partitions = [d \in {0} |-> << >>]
    /\ \E mn \in FlapMinTransitions :
          args = [ flap_threshold_seconds |-> 5,
                   min_flap_transitions   |-> mn,
                   consider_path_change   |-> FALSE ]
    /\ df = << >> /\ events = << >>
    /\ queries = << >>
    /\ total_saved = 0 /\ all_summaries = << >> /\ batch_index = 0
    /\ writes = << >>
    /\ NoBaseline /\ NoTable /\ NoService /\ NoPipeline

flapRunFixed == << script, start_dt, end_dt, chunk_delta, args, baseline_df,
                   run, serviceVars, pipelineVars, batch_index, writes >>

\* The ingestion has stored one more update of (10.0.0.0/16, peer 10), later
\* than the ones before.
FlapRunStore ==
    /\ pc = "store"
    /\ Len(partitions[0]) < MaxFlapRunRows
    /\ \E ts \in 0..FlapRunEnd, event \in {"A", "W"} :
          /\ \A i \in 1..Len(partitions[0]) : partitions[0][i].timestamp < ts
          /\ partitions' =
                [partitions EXCEPT ![0] =
                    Append(@, [ timestamp |-> ts,
                                peer_as   |-> 10,
                                as_path   |-> << 100 >>,
                                prefix    |-> "10.0.0.0/16",
                                event     |-> event ])]
    /\ UNCHANGED << flapRunFixed, pc, current_time, chunks, df, events,
                    queries, table, total_saved, all_summaries >>

\* main() is started.
FlapRunStart ==
    /\ pc = "store"
    /\ pc' = "while"
    /\ UNCHANGED << flapRunFixed, current_time, chunks, df, events, queries,
                    table, total_saved, all_summaries, partitions >>

\* A loop body that analyzes the chunk together with everything fetched
\* before it (the frame carried over).
FlapRunIterationCarried ==
    /\ pc = "while"
    /\ current_time < end_dt
    /\ LET chunk_end == ChunkEnd(current_time, chunk_delta, end_dt)
           frame == fetch_bgp_updates(partitions, current_time, chunk_end)
           carried == fetch_bgp_updates(partitions, start_dt, chunk_end)
           summaries ==
               IF frame = << >> THEN << >>
               ELSE analyze_flap_anomalies(script, carried,
                        args.flap_threshold_seconds,
                        args.min_flap_transitions,
                        args.consider_path_change)
       IN  /\ df' = frame
           /\ events' = summaries
           /\ queries' = Append(queries, [ start  |-> current_time,
                                           end    |-> chunk_end,
                                           frame  |-> frame,
                                           events |-> summaries ])
           /\ chunks' = Append(chunks, << current_time, chunk_end >>)
           /\ IF script = "flap"
              THEN /\ table' = table \o summaries
                   /\ total_saved' = total_saved + Len(summaries)
                   /\ all_summaries' = all_summaries
              ELSE /\ table' = table
                   /\ total_saved' = total_saved
                   /\ all_summaries' = all_summaries \o summaries
           /\ current_time' = chunk_end
    /\ UNCHANGED << flapRunFixed, pc, partitions >>

\* One iteration of the loop of flap.py 208-225 / bgp-mcp flap.py 141-153:
\* the chunk is fetched; a frame that is not empty is analyzed on its own;
\* flap.py saves the summaries at once, the bgp-mcp flap.py extends
\* all_summaries; current_time = chunk_end and df is deleted.
FlapRunIteration ==
    /\ pc = "while"
    /\ current_time < end_dt
    /\ LET chunk_end == ChunkEnd(current_time, chunk_delta, end_dt)
           frame == fetch_bgp_updates(partitions, current_time, chunk_end)
           summaries ==
               IF frame = << >> THEN << >>
               ELSE analyze_flap_anomalies(script, frame,
                        args.flap_threshold_seconds,
                        args.min_flap_transitions,
                        args.consider_path_change)
       IN  /\ df' = frame
           /\ events' = summaries
           /\ queries' = Append(queries, [ start  |-> current_time,
                                           end    |-> chunk_end,
                                           frame  |-> frame,
                                           events |-> summaries ])
           /\ chunks' = Append(chunks, << current_time, chunk_end >>)
           /\ IF script = "flap"
              THEN /\ table' = table \o summaries
                   /\ total_saved' = total_saved + Len(summaries)
                   /\ all_summaries' = all_summaries
              ELSE /\ table' = table
                   /\ total_saved' = total_saved
                   /\ all_summaries' = all_summaries \o summaries
           /\ current_time' = chunk_end
    /\ UNCHANGED << flapRunFixed, pc, partitions >>

\* The loop condition fails: flap.py prints its total; the bgp-mcp flap.py
\* saves all_summaries (154-159).
FlapRunExit ==
    /\ pc = "while"
    /\ ~ (current_time < end_dt)
    /\ table' = IF script = "flap" THEN table ELSE table \o all_summaries
    /\ pc' = "done"
    /\ UNCHANGED << flapRunFixed, current_time, chunks, df, events, queries,
                    total_saved, all_summaries, partitions >>

NextFlapRun ==
    FlapRunStore \/ FlapRunStart \/ FlapRunIteration \/ FlapRunExit

SpecFlapRun == InitFlapRun /\ [][NextFlapRun]_vars

\* The rows of a (prefix, peer_as) that the chunk's fetch returned.
LoadedOf(q, prefix, peer_as) ==
    { r \in Range(q.frame) : r.prefix = prefix /\ r.peer_as = peer_as }

\* The pairs of consecutive rows of S (no row of S between the two) that
\* the script counts as a transition.
FlipsWithin(S) ==
    { pair \in S \X S :
        /\ pair[1].timestamp < pair[2].timestamp
        /\ \A r \in S : ~ ( /\ pair[1].timestamp < r.timestamp
                            /\ r.timestamp < pair[2].timestamp )
        /\ is_flip(script, pair[1], pair[2], args.flap_threshold_seconds,
                   args.consider_path_change) }

\* C28: the flap state is rebuilt per chunk.  Every event of a chunk counts
\* exactly the transitions between consecutive rows of its group that were
\* loaded in that chunk, so a pair whose rows were loaded in two different
\* chunks adds to no flap_count; total_events, first_update and last_update
\* are those of the chunk's rows of the group.
C28_FlapStatePerChunk ==
    (script \in FlapScripts /\ pc \in {"while", "done"}) =>
        \A k \in 1..Len(queries) :
            \A n \in 1..Len(queries[k].events) :
                LET e == queries[k].events[n]
                    S == LoadedOf(queries[k], e.prefix, e.peer_as)
                IN  /\ e.flap_count = Cardinality(FlipsWithin(S))
                    /\ e.total_events = Cardinality(S)
                    /\ e.first_update = SetMin({ r.timestamp : r \in S })
                    /\ e.last_update = SetMax({ r.timestamp : r \in S })

\* A finished run whose first chunk holds an announce and whose second
\* chunk holds W, A, W right after it: the second chunk's event counts two
\* transitions, not the three of the whole window.
C28_Witness ==
    /\ script \in FlapScripts /\ pc = "done"
    /\ Len(queries) = 2
    /\ Len(partitions[0]) = 4
    /\ partitions[0][1].timestamp = 3 /\ partitions[0][1].event = "A"
    /\ partitions[0][2].timestamp = 5 /\ partitions[0][2].event = "W"
    /\ queries[1].events = << >>
    /\ Len(queries[2].events) = 1
    /\ queries[2].events[1].flap_count = 2
    /\ queries[2].events[1].total_events = 3
    /\ queries[2].events[1].first_update = 5
    /\ Len(table) = 1

(***************************************************************************)
(* flap.py and bgp-mcp flap.py, continued: what every summary satisfies.   *)
(***************************************************************************)
\* C29: every event analyze_flap_anomalies returns has
\* min_flap_transitions <= flap_count <= total_events - 1 and
\* first_update <= last_update, total_events being the number of rows of
\* its (prefix, peer_as) in the frame; no two events of the call have the
\* same (prefix, peer_as).
C29_FlapEventBounds ==
    (script \in FlapScripts /\ pc = "analyzed") =>
        /\ \A k \in 1..Len(events) :
              /\ args.min_flap_transitions <= events[k].flap_count
              /\ events[k].flap_count <= events[k].total_events - 1
              /\ events[k].first_update <= events[k].last_update
              /\ events[k].total_events =
                    Cardinality({ i \in 1..Len(df) :
                                    /\ df[i].prefix = events[k].prefix
                                    /\ df[i].peer_as = events[k].peer_as })
        /\ \A k, n \in 1..Len(events) :
              ( /\ events[k].prefix = events[n].prefix
                /\ events[k].peer_as = events[n].peer_as ) => k = n

\* A frame of three rows of one group that flips at every step, analyzed
\* with min_flap_transitions = 2: flap_count = total_events - 1.
C29_Witness ==
    /\ script \in FlapScripts /\ pc = "analyzed"
    /\ args.min_flap_transitions = 2
    /\ Len(df) = 3
    /\ Len(events) = 1
    /\ events[1].flap_count = 2
    /\ events[1].total_events = 3
    /\ events[1].first_update < events[1].last_update

(***************************************************************************)
(* moas.py, continued: the fields of one MOAS event against each other.    *)
(***************************************************************************)
\* The sum of the event counts of the per-origin evidence over the origins S.
RECURSIVE PerOriginEvents(_, _)
PerOriginEvents(per_origin, S) ==
    IF S = {} THEN 0
    ELSE LET o == CHOOSE x \in S : TRUE
         IN  per_origin[o].events + PerOriginEvents(per_origin, S \ {o})

\* C30: in every MOAS event origin_asns is ascending and free of duplicates
\* and is the key set of the per-origin evidence, the per-origin event
\* counts add up to total_events, every per-origin peer list is non-empty,
\* and the union of the per-origin peers has distinct_peers members.
C30_MoasEventConsistent ==
    (script = "moas" /\ pc = "detected") =>
        \A k \in 1..Len(events) :
            LET e == events[k]
            IN  /\ \A i \in 1..(Len(e.origin_asns) - 1) :
                      e.origin_asns[i] < e.origin_asns[i + 1]
                /\ Range(e.origin_asns) = DOMAIN e.per_origin
                /\ Range(e.origin_asns) =
                      { LastOf(df[i].as_path) :
                          i \in { n \in 1..Len(df) :
                                    /\ df[n].prefix = e.prefix
                                    /\ df[n].as_path # << >> } }
                /\ PerOriginEvents(e.per_origin, DOMAIN e.per_origin)
                      = e.total_events
                /\ \A o \in DOMAIN e.per_origin : e.per_origin[o].peers # << >>
                /\ Cardinality(UNION { Range(e.per_origin[o].peers) :
                                         o \in DOMAIN e.per_origin })
                      = e.distinct_peers

\* An event of two origins whose peer lists overlap: origin 100 seen three
\* times, origin 200 twice, three peers in all.
C30_Witness ==
    /\ script = "moas" /\ pc = "detected"
    /\ Len(events) = 1
    /\ events[1].origin_asns = << 100, 200 >>
    /\ events[1].per_origin[100].events = 3
    /\ events[1].per_origin[200].events = 2
    /\ events[1].distinct_peers = 3
    /\ Range(events[1].per_origin[100].peers)
          \cap Range(events[1].per_origin[200].peers) # {}

=============================================================================
